---- MODULE Spec2Model ----
(***************************************************************************)
(* Model of the search result/match model (CommitMatch, CommitDiffMatch),  *)
(* the conversion of commit matches to commit-diff matches, the LIMIT job  *)
(* and the opportunistic plan compiler of sourcegraph.                     *)
(*                                                                         *)
(* Strings are modelled as follows.  A diff line is a record whose `kind`  *)
(* is the class of its first character ("+", "-", " ", "@" for a hunk      *)
(* header, "f" for a file header line, "" for the empty line).  A pattern  *)
(* value is the non-empty sequence of its space-separated words (the       *)
(* empty string is <<"">>), so strings.Split(value, " ") is the sequence   *)
(* itself.                                                                 *)
(***************************************************************************)
EXTENDS Integers, Sequences, FiniteSets, TLC

VARIABLES
  \* --- match model: one CommitMatch and the last operation called on it
  cm,        \* the CommitMatch the operations are called on (the receiver)
  prev,      \* the receiver as it was before the last operation
  op,        \* the last operation: [name, n, path]
  ret,       \* what the last operation returned: [kind, int, match]
  \* --- toCommitDiffResults: the loop over a batch of matches
  matches,     \* the batch given to toCommitDiffResults
  newMatches,  \* the batch built so far
  mi,          \* index of the next match of the loop (1-based)
  \* --- LIMIT(n) over concurrently producing child branches
  limit0,      \* the n the LIMIT job was built with
  remaining,   \* the shared remaining-budget counter
  cancelled,   \* whether LIMIT has cancelled its child's context
  limitHit,    \* the "result limit hit" indicator of the alert
  bpc,         \* per branch: "run", "send" (a batch is in flight) or "done"
  bbatch,      \* per branch: the batch in flight
  nsent,       \* per branch: number of batches produced
  sink,        \* the events (batches) delivered to the parent sink, in order
  \* --- NewOpportunisticJob
  version,     \* which BuildBasic is compiled in: "OnlySelect" or "UnorderedPatterns"
  plan,        \* the query plan: a sequence of Basic clauses
  gi,          \* index of the next generated clause (the nested loops, flattened)
  children,    \* the jobs compiled so far
  job,         \* the returned job
  cpc,         \* "loop", "done" or the panic raised
  \* --- calls of the query-mutation rules on one clause
  rb,          \* the clause of the caller that is passed to the rules
  rcalls,      \* the calls so far: [rule, arg, result]
  \* --- PARALLEL fan-out over backend branches
  pwork,       \* per branch: the batches its backend returns
  pfails,      \* per branch: whether its backend fails
  ppc,         \* per branch: "run", "ok", "err" or "cancelled"
  psent,       \* per branch: the number of batches sent
  psink,       \* the shared sink: [branch, batch] in order of arrival
  pcancelled,  \* who cancelled the branches' context: "no", "parent" or "error"
  pout,        \* what Run returned: [state, alert, err]
  \* --- TIMEOUT(d) over one child
  tdeadline,   \* d, in ticks of the clock
  tclock,      \* the time since Run was called
  tctx,        \* the child's context: "live" or "expired"
  tobserves,   \* whether the child ever looks at its context
  ttotal,      \* the number of backend calls the child has to make
  tdelivered,  \* the number of backend calls made, their results delivered
  tchild,      \* the child: "idle", "call", "done" or "cancelled"
  tpc,         \* TIMEOUT's Run: "running" or "returned"
  talert,      \* the alert Run returned: "none" or "timed out"
  \* --- NewComputeStream
  kpath,       \* how far NewComputeStream got: "call" before the call, then
               \* "parse", "convert", "settings", "plan" (the failing step)
               \* or "started"
  keventsC,    \* the events channel returned: "nil", "open" or "closed"
  kcloses,     \* the number of times close(eventsC) ran
  kpc,         \* the search goroutine: "none", "execute", "sending", "done"
  kleft,       \* the results the search has still to stream
  kctx,        \* ctx: "live" or "cancelled"
  kconsumer,   \* the consumer of eventsC: "reading" or "stopped"
  kreceived,   \* the number of events the consumer received
  kfinal,      \* the buffer of the channel final (capacity 1)
  kwait,       \* the returned wait function: "none", "waiting", "returned"
  kerr,        \* the error the wait function returned
  \* --- the dependencies store
  references,       \* table codeintel_lockfile_references, in order of id
  lockfiles,        \* table codeintel_lockfiles
  dependencyRepos,  \* table lsif_dependency_repos, in order of id
  now,              \* the time, in half hours
  sop,              \* the last call on the store
  sret,             \* what it returned
  sprev,            \* what the last call found: the tables, the last
                    \* call or the times of return before it
  upserted,         \* per (repo, commit): the last successful upsert
  returned,         \* per (repository_name, revspec): when it was last
                    \* returned by SelectRepoRevisionsToResolve
  \* --- parseDiffString over the lines of one diff
  dinput,           \* strings.Split(diff, "\n")
  dnext,            \* the index of the line the loop reads next
  dstate,           \* state: "INIT", "IN_DIFF" or "IN_HUNK"
  currentDiff,      \* the diffFile being filled
  currentHunk,      \* the diffHunk being filled
  dres,             \* res, the files appended so far
  dret              \* "running", or what parseDiffString returned

matchVars == <<cm, prev, op, ret>>
streamVars == <<matches, newMatches, mi>>
limitVars == <<limit0, remaining, cancelled, limitHit, bpc, bbatch, nsent, sink>>
compileVars == <<version, plan, gi, children, job, cpc>>
ruleVars == <<rb, rcalls>>
parallelVars == <<pwork, pfails, ppc, psent, psink, pcancelled, pout>>
timeoutVars == <<tdeadline, tclock, tctx, tobserves, ttotal, tdelivered, tchild, tpc, talert>>
computeVars == <<kpath, keventsC, kcloses, kpc, kleft, kctx, kconsumer, kreceived, kfinal, kwait, kerr>>
storeVars == <<references, lockfiles, dependencyRepos, now, sop, sret, sprev, upserted, returned>>
parseVars == <<dinput, dnext, dstate, currentDiff, currentHunk, dres, dret>>

\* what the operations of one part leave alone
exceptMatch == <<streamVars, limitVars, compileVars, ruleVars, parallelVars, timeoutVars,
                 computeVars, storeVars, parseVars>>
exceptStream == <<matchVars, limitVars, compileVars, ruleVars, parallelVars, timeoutVars,
                  computeVars, storeVars, parseVars>>
exceptLimit == <<matchVars, streamVars, compileVars, ruleVars, parallelVars, timeoutVars,
                 computeVars, storeVars, parseVars>>
exceptCompile == <<matchVars, streamVars, limitVars, ruleVars, parallelVars, timeoutVars,
                   computeVars, storeVars, parseVars>>
exceptRules == <<matchVars, streamVars, limitVars, compileVars, parallelVars, timeoutVars,
                 computeVars, storeVars, parseVars>>
exceptParallel == <<matchVars, streamVars, limitVars, compileVars, ruleVars, timeoutVars,
                    computeVars, storeVars, parseVars>>
exceptTimeout == <<matchVars, streamVars, limitVars, compileVars, ruleVars, parallelVars,
                   computeVars, storeVars, parseVars>>
exceptCompute == <<matchVars, streamVars, limitVars, compileVars, ruleVars, parallelVars,
                   timeoutVars, storeVars, parseVars>>
exceptStore == <<matchVars, streamVars, limitVars, compileVars, ruleVars, parallelVars, timeoutVars,
                 computeVars, parseVars>>
exceptParse == <<matchVars, streamVars, limitVars, compileVars, ruleVars, parallelVars, timeoutVars,
                 computeVars, storeVars>>

vars == <<cm, prev, op, ret, matches, newMatches, mi,
          limit0, remaining, cancelled, limitHit, bpc, bbatch, nsent, sink,
          version, plan, gi, children, job, cpc, rb, rcalls,
          pwork, pfails, ppc, psent, psink, pcancelled, pout,
          tdeadline, tclock, tctx, tobserves, ttotal, tdelivered, tchild, tpc, talert,
          kpath, keventsC, kcloses, kpc, kleft, kctx, kconsumer, kreceived, kfinal, kwait, kerr,
          references, lockfiles, dependencyRepos, now, sop, sret, sprev, upserted, returned,
          dinput, dnext, dstate, currentDiff, currentHunk, dres, dret>>

-----------------------------------------------------------------------------
(* Bounds *)

\* arbitrary highlight sequences have at most MaxRanges ranges
MaxRanges == 2
\* canonical long highlight sequences have MaxRanges+1 .. LongRanges ranges
LongRanges == 10
\* Limit is called with limits -1 .. MaxLimit
MaxLimit == 4
\* a batch given to toCommitDiffResults has at most MaxMatches matches
MaxMatches == 2
\* every child branch of LIMIT produces at most MaxBatches batches
MaxBatches == 2
\* a plan has 1 .. MaxPlan clauses
MaxPlan == 2
\* the rules are called at most MaxCalls times on a clause
MaxCalls == 3
\* a TIMEOUT has a deadline of 1 .. MaxDeadline ticks; the clock stops
\* MaxDeadline ticks after the start
MaxDeadline == 3
\* the child of a TIMEOUT makes 0 .. MaxWork backend calls
MaxWork == 2
\* a compute search streams 0 .. MaxEvents results
MaxEvents == 3
\* an upsert is given 0 .. MaxDeps dependencies
MaxDeps == 2
\* time.Now() goes from 0 to MaxTime half hours
MaxTime == 4
\* minimumCheckInterval is 1 .. MaxInterval half hours
MaxInterval == 3
\* batchSize is 1 .. MaxBatchSize
MaxBatchSize == 2
\* a diff given to parseDiffString has 0 .. MaxFiles files
MaxFiles == 2
\* time.Hour, in the time unit of the store model (half an hour)
Hour == 2

-----------------------------------------------------------------------------
(* Data *)

RECURSIVE SeqsUpTo(_, _)
\* all sequences over S of length 0..n
SeqsUpTo(S, n) ==
  IF n = 0 THEN {<<>>}
  ELSE LET shorter == SeqsUpTo(S, n - 1)
       IN  shorter \cup {Append(s, x) : s \in {t \in shorter : Len(t) = n - 1}, x \in S}

\* the elements of a sequence
Elements(seq) == {seq[i] : i \in 1..Len(seq)}

\* a diff line, by the class of its first character
Line(k, t) == [kind |-> k, text |-> t]
FileLine(old, new) == [kind |-> "f", text |-> <<old, new>>]
HunkLine == Line("@", "@@ -1,1 +1,1 @@")

\* strings.HasPrefix(line, prefix) for prefix in {"", "+", "-"}
HasPrefix(line, prefix) == prefix = "" \/ line.kind = prefix

\* a highlighted range; the operations read Start.Line only (0-based)
Range(l) == [Start |-> [Line |-> l]]

\* *MatchedString: nil, or content (strings.Split(Content, "\n")) and ranges
NilMS == [nil |-> TRUE, Content |-> <<>>, MatchedRanges |-> <<>>]
MatchedString(content, ranges) ==
  [nil |-> FALSE, Content |-> content, MatchedRanges |-> ranges]

\* the Match variants
NilMatch == [type |-> "nil"]
RepoMatch(name, id) == [type |-> "RepoMatch", Name |-> name, ID |-> id]
CommitMatch(repo, commit, message, diff) ==
  [type |-> "CommitMatch", Repo |-> repo, Commit |-> commit,
   MessagePreview |-> message, DiffPreview |-> diff]
CommitDiffMatch(repo, commit, orig, new) ==
  [type |-> "CommitDiffMatch", Repo |-> repo, Commit |-> commit,
   OrigName |-> orig, NewName |-> new]

MinimalRepo(name, id) == [Name |-> name, ID |-> id]
Commit(id, date) == [ID |-> id, AuthorDate |-> date]

-----------------------------------------------------------------------------
(* CommitMatch: ResultCount, Limit, Select, Key *)

\* ResultCount counting a match without highlights as 0
ResultCount_ZeroWithoutHighlights(c) ==
  IF ~c.DiffPreview.nil THEN Len(c.DiffPreview.MatchedRanges)
  ELSE IF ~c.MessagePreview.nil THEN Len(c.MessagePreview.MatchedRanges)
  ELSE 0

\* func (cm *CommitMatch) ResultCount() int
ResultCount(c) ==
  LET matchCount ==
        IF ~c.DiffPreview.nil THEN Len(c.DiffPreview.MatchedRanges)
        ELSE IF ~c.MessagePreview.nil THEN Len(c.MessagePreview.MatchedRanges)
        ELSE 0
  IN  IF matchCount > 0 THEN matchCount ELSE 1

\* limitMatchedString with the truncation left out
limitMatchedString_NoTruncate(ms, limit) ==
  IF Len(ms.MatchedRanges) = 0
  THEN [panic |-> FALSE, ms |-> ms, ret |-> limit - 1]
  ELSE IF Len(ms.MatchedRanges) > limit
  THEN [panic |-> FALSE, ms |-> ms, ret |-> 0]
  ELSE [panic |-> FALSE, ms |-> ms, ret |-> limit - Len(ms.MatchedRanges)]

\* limitMatchedString keeping the last `limit` ranges instead of the first
limitMatchedString_KeepLast(ms, limit) ==
  IF Len(ms.MatchedRanges) = 0
  THEN [panic |-> FALSE, ms |-> ms, ret |-> limit - 1]
  ELSE IF Len(ms.MatchedRanges) > limit
  THEN IF limit < 0
       THEN [panic |-> TRUE, ms |-> ms, ret |-> 0]
       ELSE [panic |-> FALSE,
             ms |-> [ms EXCEPT !.MatchedRanges =
                        SubSeq(@, Len(@) - limit + 1, Len(@))],
             ret |-> 0]
  ELSE [panic |-> FALSE, ms |-> ms, ret |-> limit - Len(ms.MatchedRanges)]

\* the closure limitMatchedString of CommitMatch.Limit; ms.MatchedRanges[:limit]
\* with a negative limit is a slice-bounds panic
limitMatchedString(ms, limit) ==
  IF Len(ms.MatchedRanges) = 0
  THEN [panic |-> FALSE, ms |-> ms, ret |-> limit - 1]
  ELSE IF Len(ms.MatchedRanges) > limit
  THEN IF limit < 0
       THEN [panic |-> TRUE, ms |-> ms, ret |-> 0]
       ELSE [panic |-> FALSE,
             ms |-> [ms EXCEPT !.MatchedRanges = SubSeq(@, 1, limit)],
             ret |-> 0]
  ELSE [panic |-> FALSE, ms |-> ms, ret |-> limit - Len(ms.MatchedRanges)]

\* CommitMatch.Limit falling back to "zero hits" when no preview is set
CommitMatch_Limit_NoPanic(c, limit) ==
  IF ~c.DiffPreview.nil
  THEN LET r == limitMatchedString(c.DiffPreview, limit)
       IN  [panic |-> r.panic, recv |-> [c EXCEPT !.DiffPreview = r.ms], ret |-> r.ret]
  ELSE IF ~c.MessagePreview.nil
  THEN LET r == limitMatchedString(c.MessagePreview, limit)
       IN  [panic |-> r.panic, recv |-> [c EXCEPT !.MessagePreview = r.ms], ret |-> r.ret]
  ELSE [panic |-> FALSE, recv |-> c, ret |-> limit]

\* func (cm *CommitMatch) Limit(limit int) int: the receiver afterwards and the
\* returned budget, or a panic
CommitMatch_Limit(c, limit) ==
  IF ~c.DiffPreview.nil
  THEN LET r == limitMatchedString(c.DiffPreview, limit)
       IN  [panic |-> r.panic, recv |-> [c EXCEPT !.DiffPreview = r.ms], ret |-> r.ret]
  ELSE IF ~c.MessagePreview.nil
  THEN LET r == limitMatchedString(c.MessagePreview, limit)
       IN  [panic |-> r.panic, recv |-> [c EXCEPT !.MessagePreview = r.ms], ret |-> r.ret]
  ELSE [panic |-> TRUE, recv |-> c, ret |-> 0]

\* filter.SelectPath.Root()
Root(path) == IF Len(path) > 0 THEN path[1] ELSE ""

RECURSIVE selectModifiedLines_from(_, _, _, _)
\* the loop of selectModifiedLines over highlights[i..]; lines[h.Start.Line]
\* beyond the last line is an index-out-of-range panic
selectModifiedLines_from(lines, highlights, prefix, i) ==
  IF i > Len(highlights) THEN [panic |-> FALSE, ranges |-> <<>>]
  ELSE LET h == highlights[i]
           rest == selectModifiedLines_from(lines, highlights, prefix, i + 1)
       IN  IF h.Start.Line < 0 THEN rest
           ELSE IF h.Start.Line >= Len(lines) THEN [panic |-> TRUE, ranges |-> <<>>]
           ELSE IF HasPrefix(lines[h.Start.Line + 1], prefix)
           THEN [panic |-> rest.panic, ranges |-> <<h>> \o rest.ranges]
           ELSE rest

\* selectModifiedLines dropping its first included highlight
selectModifiedLines_DropFirst(lines, highlights, prefix) ==
  LET r == selectModifiedLines_from(lines, highlights, prefix, 1)
  IN  IF Len(lines) = 0 THEN [panic |-> FALSE, ranges |-> highlights]
      ELSE [panic |-> r.panic,
            ranges |-> IF Len(r.ranges) > 1 THEN Tail(r.ranges) ELSE r.ranges]

\* func selectModifiedLines(lines []string, highlights []Range, prefix string) []Range
selectModifiedLines(lines, highlights, prefix) ==
  IF Len(lines) = 0 THEN [panic |-> FALSE, ranges |-> highlights]
  ELSE selectModifiedLines_from(lines, highlights, prefix, 1)

\* modifiedLinesExist answering true for every diff
modifiedLinesExist_Always(lines, prefix) == TRUE

\* func modifiedLinesExist(lines []string, prefix string) bool
modifiedLinesExist(lines, prefix) ==
  \E i \in 1..Len(lines) : HasPrefix(lines[i], prefix)

\* the prefix selectCommitDiffKind derives from the field
FieldPrefix(field) ==
  IF field = "removed" THEN "-" ELSE IF field = "added" THEN "+" ELSE ""

\* func selectCommitDiffKind(c *CommitMatch, field string) Match: the returned
\* match and the receiver afterwards (c.DiffPreview.MatchedRanges is assigned)
selectCommitDiffKind(c, field) ==
  LET diff == c.DiffPreview
      prefix == FieldPrefix(field)
  IN  IF diff.nil THEN [panic |-> FALSE, res |-> NilMatch, recv |-> c]
      ELSE IF Len(diff.MatchedRanges) = 0
      THEN IF modifiedLinesExist(diff.Content, prefix)
           THEN [panic |-> FALSE, res |-> c, recv |-> c]
           ELSE [panic |-> FALSE, res |-> NilMatch, recv |-> c]
      ELSE LET sel == selectModifiedLines(diff.Content, diff.MatchedRanges, prefix)
               c2 == [c EXCEPT !.DiffPreview.MatchedRanges = sel.ranges]
           IN  IF sel.panic THEN [panic |-> TRUE, res |-> NilMatch, recv |-> c]
               ELSE IF Len(sel.ranges) > 0
               THEN [panic |-> FALSE, res |-> c2, recv |-> c2]
               ELSE [panic |-> FALSE, res |-> NilMatch, recv |-> c]

\* CommitMatch.Select answering every commit path with the match itself
CommitMatch_Select_NoDiffCheck(c, path) ==
  IF Root(path) = "repo"
  THEN [panic |-> FALSE, res |-> RepoMatch(c.Repo.Name, c.Repo.ID), recv |-> c]
  ELSE IF Root(path) = "commit"
  THEN [panic |-> FALSE, res |-> c, recv |-> c]
  ELSE [panic |-> FALSE, res |-> NilMatch, recv |-> c]

\* func (cm *CommitMatch) Select(path filter.SelectPath) Match
CommitMatch_Select(c, path) ==
  IF Root(path) = "repo"
  THEN [panic |-> FALSE, res |-> RepoMatch(c.Repo.Name, c.Repo.ID), recv |-> c]
  ELSE IF Root(path) = "commit"
  THEN LET fields == Tail(path)
       IN  IF Len(fields) > 0 /\ fields[1] = "diff"
           THEN IF c.DiffPreview.nil
                THEN [panic |-> FALSE, res |-> NilMatch, recv |-> c]
                ELSE IF Len(fields) = 1
                THEN [panic |-> FALSE, res |-> c, recv |-> c]
                ELSE IF Len(fields) = 2
                THEN selectCommitDiffKind(c, fields[2])
                ELSE [panic |-> FALSE, res |-> NilMatch, recv |-> c]
           ELSE [panic |-> FALSE, res |-> c, recv |-> c]
  ELSE [panic |-> FALSE, res |-> NilMatch, recv |-> c]

\* RepoMatch.Select: a repository match projects onto itself by a repo path
\* and onto nothing by any other path
RepoMatch_Select(r, path) ==
  IF Root(path) = "repo" THEN r ELSE NilMatch

\* func (cm *CommitDiffMatch) Select(filter.SelectPath) Match
CommitDiffMatch_Select(d, path) == NilMatch

\* Match.Select by dynamic dispatch; selecting on "no match" is "no match"
Match_Select(m, path) ==
  IF m.type = "CommitMatch" THEN CommitMatch_Select(m, path).res
  ELSE IF m.type = "RepoMatch" THEN RepoMatch_Select(m, path)
  ELSE IF m.type = "CommitDiffMatch" THEN CommitDiffMatch_Select(m, path)
  ELSE NilMatch

Key(rank, repo, date, commit, path, status) ==
  [TypeRank |-> rank, Repo |-> repo, AuthorDate |-> date, Commit |-> commit,
   Path |-> path, PathStatus |-> status]

\* func (cm *CommitMatch) Key() Key
CommitMatch_Key(c) ==
  Key(IF ~c.DiffPreview.nil THEN "rankDiffMatch" ELSE "rankCommitMatch",
      c.Repo.Name, c.Commit.AuthorDate, c.Commit.ID, "", "Modified")

-----------------------------------------------------------------------------
(* The commit matches the operations are called on *)

RepoA == MinimalRepo("github.com/a/a", 1)
RepoB == MinimalRepo("github.com/b/b", 2)
Commit1 == Commit("c1", 100)

\* a diff with an added and a removed line
DiffContentAR == <<FileLine("a.go", "a.go"), HunkLine, Line("+", "+x"), Line("-", "-y")>>
\* a diff with context lines only
DiffContentCtx == <<FileLine("a.go", "a.go"), HunkLine, Line(" ", " z")>>
\* strings.Split("", "\n") is [""]
EmptyContent == <<Line("", "")>>

DiffContents == {DiffContentAR, DiffContentCtx, EmptyContent}

\* highlights of a content: Start.Line within the content, or negative
\* (sourcegraph issue 20286)
RangesOf(content) ==
  SeqsUpTo({Range(l) : l \in -1..(Len(content) - 1)}, MaxRanges)

\* k highlights cycling through the four lines of DiffContentAR
LongRangesOf(k) == [i \in 1..k |-> Range(i % 4)]

InitialCommitMatches ==
  UNION {{CommitMatch(RepoA, Commit1, NilMS, MatchedString(c, rs)) :
            rs \in RangesOf(c)} : c \in DiffContents} \cup
  {CommitMatch(RepoA, Commit1, NilMS, MatchedString(DiffContentAR, LongRangesOf(k))) :
     k \in (MaxRanges + 1)..LongRanges} \cup
  {CommitMatch(r, Commit1, MatchedString(EmptyContent, rs), NilMS) :
     r \in {RepoA, RepoB}, rs \in RangesOf(EmptyContent)} \cup
  {CommitMatch(RepoB, Commit1, NilMS, NilMS)}

SelectPaths ==
  {<<"repo">>, <<"commit">>, <<"commit", "diff">>,
   <<"commit", "diff", "added">>, <<"commit", "diff", "removed">>,
   <<"commit", "diff", "other">>, <<"commit", "diff", "added", "x">>,
   <<"commit", "message">>, <<"file">>, <<"content">>, <<"symbol">>}

Limits == -1..MaxLimit

\* the receiver while the match model is idle
IdleCommitMatch == CommitMatch(RepoB, Commit1, NilMS, NilMS)

\* no job (nothing returned)
NoJob == [node |-> "none"]

NoOp == [name |-> "none", n |-> 0, path |-> <<>>]
NoRet == [kind |-> "none", int |-> 0, match |-> NilMatch]

\* the parts a specification does not run
IdleRules == rb = [nil |-> TRUE] /\ rcalls = <<>>
IdleParallel ==
  /\ pwork = <<>> /\ pfails = <<>> /\ ppc = <<>> /\ psent = <<>> /\ psink = <<>>
  /\ pcancelled = "no" /\ pout = [state |-> "idle"]
IdleTimeout ==
  /\ tdeadline = 0 /\ tclock = 0 /\ tctx = "live" /\ tobserves = FALSE
  /\ ttotal = 0 /\ tdelivered = 0 /\ tchild = "done" /\ tpc = "returned"
  /\ talert = "none"
IdleParse ==
  /\ dinput = <<>> /\ dnext = 1 /\ dstate = "INIT"
  /\ currentDiff = [oldFile |-> "", newFile |-> "", hunks |-> <<>>]
  /\ currentHunk = [oldStart |-> 0, oldCount |-> 0, newStart |-> 0, newCount |-> 0,
                    header |-> "", lines |-> <<>>]
  /\ dres = <<>> /\ dret = [kind |-> "returned", res |-> <<>>, err |-> "nil"]
IdleStore ==
  /\ references = <<>> /\ lockfiles = {} /\ dependencyRepos = <<>> /\ now = 0
  /\ sop = [name |-> "none"] /\ sret = [err |-> "nil"]
  /\ sprev = [name |-> "none"] /\ upserted = <<>> /\ returned = <<>>
IdleCompute ==
  /\ kpath = "parse" /\ keventsC = "nil" /\ kcloses = 0 /\ kpc = "none"
  /\ kleft = 0 /\ kctx = "live" /\ kconsumer = "stopped" /\ kreceived = 0
  /\ kfinal = <<>> /\ kwait = "returned" /\ kerr = "parse"
IdleMatch ==
  cm = IdleCommitMatch /\ prev = IdleCommitMatch /\ op = NoOp /\ ret = NoRet
IdleStream == matches = <<>> /\ newMatches = <<>> /\ mi = 1
IdleLimit ==
  /\ limit0 = 0 /\ remaining = 0 /\ cancelled = FALSE /\ limitHit = FALSE
  /\ bpc = <<>> /\ bbatch = <<>> /\ nsent = <<>> /\ sink = <<>>
IdleCompile ==
  /\ version = "OnlySelect" /\ plan = <<>> /\ gi = 1 /\ children = <<>>
  /\ job = NoJob /\ cpc = "done"

-----------------------------------------------------------------------------
(* Operations on the commit match *)

InitMatch ==
  /\ cm \in InitialCommitMatches
  /\ prev = cm
  /\ op = NoOp
  /\ ret = NoRet
  /\ matches = <<>> /\ newMatches = <<>> /\ mi = 1
  /\ limit0 = 0 /\ remaining = 0 /\ cancelled = FALSE /\ limitHit = FALSE
  /\ bpc = <<>> /\ bbatch = <<>> /\ nsent = <<>> /\ sink = <<>>
  /\ version = "OnlySelect" /\ plan = <<>> /\ gi = 1 /\ children = <<>>
  /\ job = NoJob /\ cpc = "done"
  /\ IdleRules /\ IdleParallel /\ IdleTimeout /\ IdleCompute
  /\ IdleStore
  /\ IdleParse

\* n := cm.ResultCount()
DoResultCount ==
  /\ prev' = cm
  /\ op' = [name |-> "ResultCount", n |-> 0, path |-> <<>>]
  /\ ret' = [kind |-> "int", int |-> ResultCount(cm), match |-> NilMatch]
  /\ cm' = cm
  /\ UNCHANGED exceptMatch

\* budget := cm.Limit(n)
DoLimit ==
  \E n \in Limits :
    LET r == CommitMatch_Limit(cm, n)
    IN  /\ prev' = cm
        /\ op' = [name |-> "Limit", n |-> n, path |-> <<>>]
        /\ ret' = IF r.panic THEN [kind |-> "panic", int |-> 0, match |-> NilMatch]
                  ELSE [kind |-> "int", int |-> r.ret, match |-> NilMatch]
        /\ cm' = r.recv
        /\ UNCHANGED exceptMatch

\* m := cm.Select(path)
DoSelect ==
  \E path \in SelectPaths :
    LET r == CommitMatch_Select(cm, path)
    IN  /\ prev' = cm
        /\ op' = [name |-> "Select", n |-> 0, path |-> path]
        /\ ret' = IF r.panic THEN [kind |-> "panic", int |-> 0, match |-> NilMatch]
                  ELSE [kind |-> "match", int |-> 0, match |-> r.res]
        /\ cm' = r.recv
        /\ UNCHANGED exceptMatch

NextMatch == DoResultCount \/ DoLimit \/ DoSelect

-----------------------------------------------------------------------------
(* CommitDiffMatch and toCommitDiffResults *)

DevNull == "/dev/null"

\* func (cm *CommitDiffMatch) Path() string
CommitDiffMatch_Path(d) ==
  IF d.OrigName = DevNull THEN d.NewName
  ELSE IF d.NewName = DevNull THEN d.OrigName
  ELSE d.OrigName

\* func (cm *CommitDiffMatch) Key() Key: nonEmptyPath is assigned only when
\* one of the names is /dev/null
CommitDiffMatch_Key(d) ==
  LET added == d.OrigName = DevNull
      deleted == d.NewName = DevNull
      nonEmptyPath == IF deleted THEN d.OrigName ELSE IF added THEN d.NewName ELSE ""
      pathStatus == IF deleted THEN "Deleted" ELSE IF added THEN "Added" ELSE "Modified"
  IN  Key("rankDiffMatch", d.Repo.Name, d.Commit.AuthorDate, d.Commit.ID,
          nonEmptyPath, pathStatus)

\* func (cm *CommitDiffMatch) ResultCount() int
CommitDiffMatch_ResultCount(d) == 0

\* func (cm *CommitDiffMatch) Limit(int) int
CommitDiffMatch_Limit(d, limit) == 0

\* diff.ParseMultiFileDiff (go-diff): one FileDiff per file header of the
\* content, in order; a line that is no diff line is a parse error
ParseMultiFileDiff(content) ==
  [err |-> \E i \in 1..Len(content) : content[i].kind = "?",
   fileDiffs |-> SelectSeq(content, LAMBDA l : l.kind = "f")]

\* the body of the loop keeping the match whose diff preview fails to parse
toCommitDiffResults_step_KeepsUnparsed(m) ==
  IF m.type = "CommitMatch"
  THEN IF ~m.DiffPreview.nil
       THEN LET parsed == ParseMultiFileDiff(m.DiffPreview.Content)
            IN  IF parsed.err THEN <<m>>
                ELSE [i \in 1..Len(parsed.fileDiffs) |->
                        CommitDiffMatch(m.Repo, m.Commit,
                                        parsed.fileDiffs[i].text[1],
                                        parsed.fileDiffs[i].text[2])]
       ELSE <<m>>
  ELSE <<m>>

\* the body of the loop of toCommitDiffResults for match m: what it appends
toCommitDiffResults_step(m) ==
  IF m.type = "CommitMatch"
  THEN IF ~m.DiffPreview.nil
       THEN LET parsed == ParseMultiFileDiff(m.DiffPreview.Content)
            IN  IF parsed.err THEN <<>>
                ELSE [i \in 1..Len(parsed.fileDiffs) |->
                        CommitDiffMatch(m.Repo, m.Commit,
                                        parsed.fileDiffs[i].text[1],
                                        parsed.fileDiffs[i].text[2])]
       ELSE <<m>>
  ELSE <<m>>

\* diff previews of commits touching one or two files
DiffOneFile == <<FileLine("a.go", "a.go"), HunkLine, Line("+", "+x"), Line("-", "-y")>>
DiffTwoFiles == <<FileLine("a.go", "a.go"), HunkLine, Line("+", "+x"),
                  FileLine("b.go", "b.go"), HunkLine, Line("-", "-y")>>
DiffAddDelete == <<FileLine(DevNull, "n.go"), HunkLine, Line("+", "+x"),
                   FileLine("o.go", DevNull), HunkLine, Line("-", "-y")>>
DiffMalformed == <<FileLine("a.go", "a.go"), Line("?", "garbage")>>

StreamMatches ==
  {CommitMatch(RepoA, Commit1, NilMS, MatchedString(c, <<Range(2)>>)) :
     c \in {DiffOneFile, DiffTwoFiles, DiffAddDelete, DiffMalformed}} \cup
  {CommitMatch(RepoA, Commit1, MatchedString(EmptyContent, <<Range(0)>>), NilMS),
   RepoMatch(RepoB.Name, RepoB.ID)}

InitStream ==
  /\ matches \in SeqsUpTo(StreamMatches, MaxMatches)
  /\ newMatches = <<>>
  /\ mi = 1
  /\ cm = IdleCommitMatch /\ prev = IdleCommitMatch /\ op = NoOp /\ ret = NoRet
  /\ limit0 = 0 /\ remaining = 0 /\ cancelled = FALSE /\ limitHit = FALSE
  /\ bpc = <<>> /\ bbatch = <<>> /\ nsent = <<>> /\ sink = <<>>
  /\ version = "OnlySelect" /\ plan = <<>> /\ gi = 1 /\ children = <<>>
  /\ job = NoJob /\ cpc = "done"
  /\ IdleRules /\ IdleParallel /\ IdleTimeout /\ IdleCompute
  /\ IdleStore
  /\ IdleParse

\* one iteration of `for _, m := range matches`
ConvertMatch ==
  /\ mi <= Len(matches)
  /\ newMatches' = newMatches \o toCommitDiffResults_step(matches[mi])
  /\ mi' = mi + 1
  /\ UNCHANGED matches
  /\ UNCHANGED exceptStream

NextStream == ConvertMatch

-----------------------------------------------------------------------------
(* The LIMIT job over the branches of a parallel child *)

\* the backends that produce matches concurrently under one LIMIT
Branches == {"Zoekt", "Searcher"}

RECURSIVE Matches_Limit(_, _)
\* trimming a batch to the remaining budget: every match is passed through
\* Limit with what is left, the matches after the budget is used up are dropped
Matches_Limit(batch, limit) ==
  IF batch = <<>> \/ limit <= 0 THEN [batch |-> <<>>, remaining |-> limit]
  ELSE LET r == CommitMatch_Limit(Head(batch), limit)
           rest == Matches_Limit(Tail(batch), r.ret)
       IN  [batch |-> <<r.recv>> \o rest.batch, remaining |-> rest.remaining]

RECURSIVE Matches_ResultCount(_)
\* the counted hits of a batch
Matches_ResultCount(batch) ==
  IF batch = <<>> THEN 0
  ELSE ResultCount(Head(batch)) + Matches_ResultCount(Tail(batch))

RECURSIVE Sink_ResultCount(_)
\* the counted hits of all matches delivered to the sink
Sink_ResultCount(events) ==
  IF events = <<>> THEN 0
  ELSE Matches_ResultCount(Head(events)) + Sink_ResultCount(Tail(events))

\* a commit match of a backend with k highlights (on lines 10k+1 .. 10k+k of
\* the commit message, or of the diff for odd k)
BackendMatch(k) ==
  LET ms == MatchedString(EmptyContent, [i \in 1..k |-> Range(10 * k + i)])
  IN  IF k % 2 = 1 THEN CommitMatch(RepoA, Commit1, NilMS, ms)
      ELSE CommitMatch(RepoA, Commit1, ms, NilMS)

BackendBatches ==
  {<<BackendMatch(0)>>, <<BackendMatch(1)>>, <<BackendMatch(MaxRanges)>>,
   <<BackendMatch(1), BackendMatch(MaxRanges)>>,
   <<BackendMatch(MaxRanges), BackendMatch(0)>>}

InitLimit ==
  /\ limit0 \in 0..MaxLimit
  /\ remaining = limit0
  /\ cancelled = FALSE
  /\ limitHit = FALSE
  /\ bpc = [b \in Branches |-> "run"]
  /\ bbatch = [b \in Branches |-> <<>>]
  /\ nsent = [b \in Branches |-> 0]
  /\ sink = <<>>
  /\ cm = IdleCommitMatch /\ prev = IdleCommitMatch /\ op = NoOp /\ ret = NoRet
  /\ matches = <<>> /\ newMatches = <<>> /\ mi = 1
  /\ version = "OnlySelect" /\ plan = <<>> /\ gi = 1 /\ children = <<>>
  /\ job = NoJob /\ cpc = "done"
  /\ IdleRules /\ IdleParallel /\ IdleTimeout /\ IdleCompute
  /\ IdleStore
  /\ IdleParse

\* a branch hands a batch of matches to LIMIT; a branch that has not yet
\* observed the cancellation still does
Produce(b) ==
  /\ bpc[b] = "run"
  /\ nsent[b] < MaxBatches
  /\ \E batch \in BackendBatches : bbatch' = [bbatch EXCEPT ![b] = batch]
  /\ bpc' = [bpc EXCEPT ![b] = "send"]
  /\ nsent' = [nsent EXCEPT ![b] = @ + 1]
  /\ UNCHANGED <<limit0, remaining, cancelled, limitHit, sink>>
  /\ UNCHANGED exceptLimit

\* LIMIT trimming and delivering without ever cancelling its child
LimitSend_NoCancel(b) ==
  /\ bpc[b] = "send"
  /\ LET r == Matches_Limit(bbatch[b], remaining)
     IN  /\ sink' = Append(sink, r.batch)
         /\ remaining' = r.remaining
  /\ bpc' = [bpc EXCEPT ![b] = "run"]
  /\ bbatch' = [bbatch EXCEPT ![b] = <<>>]
  /\ UNCHANGED <<limit0, nsent, cancelled, limitHit>>
  /\ UNCHANGED exceptLimit

\* LIMIT handles the batch of branch b under its lock: trims it to the
\* remaining budget, delivers it, and cancels the child once the budget
\* reaches zero
LimitSend(b) ==
  /\ bpc[b] = "send"
  /\ LET r == Matches_Limit(bbatch[b], remaining)
     IN  /\ sink' = Append(sink, r.batch)
         /\ remaining' = r.remaining
         /\ cancelled' = (cancelled \/ (remaining > 0 /\ r.remaining <= 0))
         /\ limitHit' = (limitHit \/ (remaining > 0 /\ r.remaining <= 0))
  /\ bpc' = [bpc EXCEPT ![b] = "run"]
  /\ bbatch' = [bbatch EXCEPT ![b] = <<>>]
  /\ UNCHANGED <<limit0, nsent>>
  /\ UNCHANGED exceptLimit

\* a branch returns: it has nothing more, or it has observed the cancellation
BranchDone(b) ==
  /\ bpc[b] = "run"
  /\ bpc' = [bpc EXCEPT ![b] = "done"]
  /\ UNCHANGED <<limit0, remaining, cancelled, limitHit, bbatch, nsent, sink>>
  /\ UNCHANGED exceptLimit

NextLimit ==
  \/ \E b \in Branches : Produce(b)
  \/ \E b \in Branches : LimitSend(b)
  \/ \E b \in Branches : BranchDone(b)

-----------------------------------------------------------------------------
(* Query clauses (query.Basic) and the mutation rules *)

\* query.Parameter{Field, Value}
Parameter(field, value) == [Field |-> field, Value |-> value]

\* query.Pattern: Value is the sequence of its space-separated words
Pattern(value, negated, labels) ==
  [kind |-> "Pattern", Value |-> value, Negated |-> negated,
   Annotation |-> [Labels |-> labels]]

\* query.Operator{Kind, Operands}
Operator(k, operands) == [kind |-> "Operator", Kind |-> k, Operands |-> operands]

\* query.Basic{Parameters, Pattern}
Basic(parameters, pattern) == [Parameters |-> parameters, Pattern |-> pattern]

\* a nil *query.Basic
NilBasic == [nil |-> TRUE]

\* query.NewPattern(value, query.Literal, query.Range{})
NewPattern(value, labels) == Pattern(value, FALSE, labels)

RECURSIVE VisitPattern(_)
\* query.VisitPattern: the pattern leaves of the nodes, in order
VisitPattern(nodes) ==
  IF nodes = <<>> THEN <<>>
  ELSE LET n == Head(nodes)
       IN  (IF n.kind = "Pattern" THEN <<n>>
            ELSE IF n.kind = "Operator" THEN VisitPattern(n.Operands)
            ELSE <<>>) \o VisitPattern(Tail(nodes))

RECURSIVE UnorderedPatterns_terms(_)
\* the callback of UnorderedPatterns over the visited leaves: a negated term
\* as it is, one literal pattern per word of any other term
UnorderedPatterns_terms(leaves) ==
  IF leaves = <<>> THEN <<>>
  ELSE LET l == Head(leaves)
       IN  (IF l.Negated THEN <<Pattern(l.Value, l.Negated, l.Annotation.Labels)>>
            ELSE [i \in 1..Len(l.Value) |-> NewPattern(<<l.Value[i]>>, "Literal")])
           \o UnorderedPatterns_terms(Tail(leaves))

\* UnorderedPatterns leaving the negated terms out of the AND
UnorderedPatterns_WithoutNegated(b) ==
  Basic(b.Parameters,
        Operator("And", SelectSeq(UnorderedPatterns_terms(VisitPattern(<<b.Pattern>>)),
                                  LAMBDA t : ~t.Negated)))

\* func UnorderedPatterns(b query.Basic) *query.Basic (never nil)
UnorderedPatterns(b) ==
  Basic(b.Parameters,
        Operator("And", UnorderedPatterns_terms(VisitPattern(<<b.Pattern>>))))

RECURSIVE StringHuman(_)
RECURSIVE StringHuman_operands(_, _)
\* the operands of an operator printed with the operator between them
StringHuman_operands(operands, k) ==
  IF operands = <<>> THEN <<>>
  ELSE IF Len(operands) = 1 THEN StringHuman(operands[1])
  ELSE StringHuman(operands[1]) \o (IF k = "" THEN <<>> ELSE <<k>>)
       \o StringHuman_operands(Tail(operands), k)

\* query.StringHuman of a pattern node, as words; a negated term is printed
\* inside (NOT ...), an operator expression inside parentheses, the terms of
\* a concatenation one after the other
StringHuman(pattern) ==
  IF pattern.kind = "Operator" /\ pattern.Kind = "Concat"
  THEN StringHuman_operands(pattern.Operands, "")
  ELSE IF pattern.kind = "Operator"
  THEN <<"(">> \o StringHuman_operands(pattern.Operands,
                                      IF pattern.Kind = "And" THEN "AND" ELSE "OR")
       \o <<")">>
  ELSE IF pattern.Negated THEN <<"(NOT">> \o pattern.Value \o <<")">>
  ELSE pattern.Value

\* the words after `only ` that the regular expression of OnlySelect accepts
OnlyKinds ==
  {"repo", "repos", "file", "files", "path", "paths", "content", "symbol", "symbols"}

\* vr.FindString: the kind without its plural s
KindOf(w) ==
  IF w \in {"repo", "repos"} THEN "repo"
  ELSE IF w \in {"file", "files"} THEN "file"
  ELSE IF w \in {"path", "paths"} THEN "path"
  ELSE IF w \in {"symbol", "symbols"} THEN "symbol"
  ELSE IF w = "content" THEN "content"
  ELSE ""

\* whether `only <kind>` matches at word i of s
OnlyAt(s, i) == i < Len(s) /\ s[i] = "only" /\ s[i + 1] \in OnlyKinds

RECURSIVE OnlySplit(_, _, _)
\* r.Split(s, -1) from word i on, cur being the part collected so far (<<>>
\* at the start of s): the texts around the matches.  The space before a
\* match ends its part with an empty word and the space after it starts the
\* next part with one; the text after the last match (all of s without a
\* match) is always appended, so the result is never empty
OnlySplit(s, i, cur) ==
  IF i > Len(s) THEN <<IF cur = <<>> THEN <<"">> ELSE cur>>
  ELSE IF OnlyAt(s, i) THEN <<Append(cur, "")>> \o OnlySplit(s, i + 2, <<"">>)
  ELSE OnlySplit(s, i + 1, Append(cur, s[i]))

RECURSIVE Join(_)
\* strings.Join(out, ""): the last word of a part and the first word of the
\* next one (one of them empty) become one word
Join(out) ==
  IF Len(out) = 0 THEN <<"">>
  ELSE IF Len(out) = 1 THEN out[1]
  ELSE LET x == out[1]
           y == Join(Tail(out))
       IN  SubSeq(x, 1, Len(x) - 1)
           \o <<IF x[Len(x)] = "" THEN y[1] ELSE x[Len(x)]>> \o Tail(y)

\* r.FindString(s): the kind word of the leftmost match, "" without a match
OnlyFirst(s) ==
  IF \E i \in 1..Len(s) : OnlyAt(s, i)
  THEN s[1 + CHOOSE i \in 1..Len(s) :
               OnlyAt(s, i) /\ \A j \in 1..(i - 1) : ~OnlyAt(s, j)]
  ELSE ""

RECURSIVE TrimLeft(_)
TrimLeft(s) == IF Len(s) > 1 /\ Head(s) = "" THEN TrimLeft(Tail(s)) ELSE s

RECURSIVE TrimRight(_)
TrimRight(s) ==
  IF Len(s) > 1 /\ s[Len(s)] = "" THEN TrimRight(SubSeq(s, 1, Len(s) - 1)) ELSE s

\* strings.TrimSpace on the words of a string
TrimSpace(s) == TrimRight(TrimLeft(s))

\* query.MapField(nodes, query.FieldSelect, -> nil): the select parameters removed
RemoveSelect(parameters) == SelectSeq(parameters, LAMBDA q : q.Field # "select")

\* OnlySelect leaving the pattern of the generated clause empty
OnlySelect_EmptyPattern(b) ==
  LET s == StringHuman(b.Pattern)
      out == OnlySplit(s, 1, <<>>)
      parameters == Append(RemoveSelect(b.Parameters),
                           Parameter("select", KindOf(OnlyFirst(s))))
  IN  IF Len(out) = 0 THEN NilBasic
      ELSE Basic(parameters, Pattern(<<"">>, FALSE, "None"))

\* func OnlySelect(b query.Basic) *query.Basic
OnlySelect(b) ==
  LET s == StringHuman(b.Pattern)
      out == OnlySplit(s, 1, <<>>)
      parameters == Append(RemoveSelect(b.Parameters),
                           Parameter("select", KindOf(OnlyFirst(s))))
      stripped == Join(out)
  IN  IF Len(out) = 0 THEN NilBasic
      ELSE Basic(parameters, Pattern(TrimSpace(stripped), FALSE, "None"))

\* func BuildBasic(b query.Basic) []query.Basic of opportunistic.go
BuildBasic_OnlySelect(b) ==
  LET g == OnlySelect(b)
  IN  IF g # NilBasic THEN <<g>> ELSE <<>>

\* func BuildBasic(b query.Basic) []query.Basic with the incoming query included
BuildBasic_UnorderedPatterns(b) ==
  LET g == UnorderedPatterns(b)
  IN  <<b>> \o (IF g # NilBasic THEN <<g>> ELSE <<>>)

\* the BuildBasic that is compiled in
BuildBasic(v, b) ==
  IF v = "OnlySelect" THEN BuildBasic_OnlySelect(b) ELSE BuildBasic_UnorderedPatterns(b)

-----------------------------------------------------------------------------
(* NewOpportunisticJob *)

\* inputs.DefaultLimit() of a streaming search, and the default timeout in seconds
DefaultLimit == 500
DefaultTimeout == 20

\* the value of the first parameter with the field, "" when there is none
StringValue(b, field) ==
  LET with == SelectSeq(b.Parameters, LAMBDA q : q.Field = field)
  IN  IF with = <<>> THEN "" ELSE with[1].Value

\* strconv.Atoi / time.ParseDuration (seconds) on the values of the model
ParseNumber(v) == IF v = "10" THEN 10 ELSE IF v = "5s" THEN 5 ELSE 0

\* newBasic.ToParseTree().MaxResults(defaultLimit)
MaxResults(b, defaultLimit) ==
  IF StringValue(b, "count") # "" THEN ParseNumber(StringValue(b, "count"))
  ELSE defaultLimit

\* search.TimeoutDuration(newBasic)
TimeoutDuration(b) ==
  IF StringValue(b, "timeout") # "" THEN ParseNumber(StringValue(b, "timeout"))
  ELSE DefaultTimeout

\* filter.SelectPathFromString on a value without dots
SelectPathFromString(v) == <<v>>

\* the values of the repo: parameters of a clause, in order
RepoFilters(b) ==
  LET with == SelectSeq(b.Parameters, LAMBDA q : q.Field = "repo")
  IN  [i \in 1..Len(with) |-> with[i].Value]

\* a leaf job of the backend fan-out: the repositories it is scoped to (the
\* clause's repository filters) and the pattern it searches
LeafJob(name, b) ==
  [job |-> name, RepoFilters |-> RepoFilters(b), Pattern |-> b.Pattern]

\* the leaves of the fan-out of a clause: the indexed and the unindexed
\* search of the repo pager, the repo-name search and the computation of the
\* excluded repositories (which takes no pattern)
FanOut(b) ==
  <<LeafJob("ZoektRepoSubset", b), LeafJob("Searcher", b), LeafJob("RepoSearch", b),
    [job |-> "ComputeExcludedRepos", RepoFilters |-> RepoFilters(b)]>>

\* the job ToEvaluateJob and OptimizationPass return for a clause
BackendJob(b) == [node |-> "BACKEND", basic |-> b, children |-> FanOut(b)]
NewSelectJob(path, child) == [node |-> "SELECT", value |-> path, child |-> child]
NewLimitJob(n, child) == [node |-> "LIMIT", value |-> n, child |-> child]
NewTimeoutJob(d, child) == [node |-> "TIMEOUT", value |-> d, child |-> child]

\* NewOrJob: a single child is returned as it is
NewOrJob(cs) == IF Len(cs) = 1 THEN cs[1] ELSE [node |-> "OR", children |-> cs]

\* the loop body with LIMIT wrapped around TIMEOUT
CompileChild_LimitOutside(newBasic) ==
  LET child == BackendJob(newBasic)
      v == StringValue(newBasic, "select")
      selected == IF v # "" THEN NewSelectJob(SelectPathFromString(v), child) ELSE child
  IN  NewLimitJob(MaxResults(newBasic, DefaultLimit),
                  NewTimeoutJob(TimeoutDuration(newBasic), selected))

\* the body of the inner loop of NewOpportunisticJob once ToEvaluateJob and
\* OptimizationPass have succeeded: selectors, then limit and timeout
CompileChild(newBasic) ==
  LET child == BackendJob(newBasic)
      v == StringValue(newBasic, "select")
      selected == IF v # "" THEN NewSelectJob(SelectPathFromString(v), child) ELSE child
  IN  NewTimeoutJob(TimeoutDuration(newBasic),
                    NewLimitJob(MaxResults(newBasic, DefaultLimit), selected))

RECURSIVE Generated(_, _)
\* the clauses the nested loops of NewOpportunisticJob go through, in order
Generated(v, p) ==
  IF p = <<>> THEN <<>> ELSE BuildBasic(v, Head(p)) \o Generated(v, Tail(p))

\* the parameters of the clauses of a plan
ClauseParameters ==
  {<<Parameter("repo", "sourcegraph")>> \o extra :
     extra \in {<<>>,
                <<Parameter("count", "10")>>,
                <<Parameter("select", "file"), Parameter("timeout", "5s")>>,
                <<Parameter("select", "file"), Parameter("count", "10"),
                  Parameter("timeout", "5s")>>}}

\* the patterns of the clauses of a plan
ClausePatterns ==
  {Pattern(<<"func", "parse">>, FALSE, "Literal"),
   Pattern(<<"func", "parse", "only", "repo">>, FALSE, "Literal"),
   Pattern(<<"a", "only", "files", "b">>, FALSE, "Literal"),
   Pattern(<<"test">>, TRUE, "Literal"),
   Operator("And", <<Pattern(<<"a", "b">>, FALSE, "Literal"),
                     Pattern(<<"x", "y">>, TRUE, "Regexp"),
                     Pattern(<<"c">>, FALSE, "Literal")>>)}

Clauses == {Basic(ps, pt) : ps \in ClauseParameters, pt \in ClausePatterns}

InitCompile ==
  /\ version \in {"OnlySelect", "UnorderedPatterns"}
  /\ plan \in SeqsUpTo(Clauses, MaxPlan) \ {<<>>}
  /\ gi = 1
  /\ children = <<>>
  /\ job = NoJob
  /\ cpc = "loop"
  /\ cm = IdleCommitMatch /\ prev = IdleCommitMatch /\ op = NoOp /\ ret = NoRet
  /\ matches = <<>> /\ newMatches = <<>> /\ mi = 1
  /\ limit0 = 0 /\ remaining = 0 /\ cancelled = FALSE /\ limitHit = FALSE
  /\ bpc = <<>> /\ bbatch = <<>> /\ nsent = <<>> /\ sink = <<>>
  /\ IdleRules /\ IdleParallel /\ IdleTimeout /\ IdleCompute
  /\ IdleStore
  /\ IdleParse

\* one pass of the inner loop: the generated clause is lowered, optimized,
\* wrapped and appended
CompileBasic ==
  /\ cpc = "loop"
  /\ gi <= Len(Generated(version, plan))
  /\ children' = Append(children, CompileChild(Generated(version, plan)[gi]))
  /\ gi' = gi + 1
  /\ UNCHANGED <<version, plan, job, cpc>>
  /\ UNCHANGED exceptCompile

\* ToEvaluateJob returns an error and the loop goes on with the next
\* generated clause
PanicInvalidBasic_DropClause ==
  /\ cpc = "loop"
  /\ gi <= Len(Generated(version, plan))
  /\ gi' = gi + 1
  /\ UNCHANGED <<version, plan, children, job, cpc>>
  /\ UNCHANGED exceptCompile

\* ToEvaluateJob returns an error: panic("generated an invalid basic query D:")
PanicInvalidBasic ==
  /\ cpc = "loop"
  /\ gi <= Len(Generated(version, plan))
  /\ cpc' = "panic: generated an invalid basic query"
  /\ UNCHANGED <<version, plan, gi, children, job>>
  /\ UNCHANGED exceptCompile

\* OptimizationPass returns an error:
\* panic("optimization pass on generated query failed D:")
PanicOptimizationPass ==
  /\ cpc = "loop"
  /\ gi <= Len(Generated(version, plan))
  /\ cpc' = "panic: optimization pass on generated query failed"
  /\ UNCHANGED <<version, plan, gi, children, job>>
  /\ UNCHANGED exceptCompile

\* return NewOrJob(children...)
ReturnOrJob ==
  /\ cpc = "loop"
  /\ gi > Len(Generated(version, plan))
  /\ job' = NewOrJob(children)
  /\ cpc' = "done"
  /\ UNCHANGED <<version, plan, gi, children>>
  /\ UNCHANGED exceptCompile

NextCompile ==
  CompileBasic \/ PanicInvalidBasic \/ PanicOptimizationPass \/ ReturnOrJob

-----------------------------------------------------------------------------
(* Calls of the query-mutation rules on a clause of the caller *)

\* the repository path of a pattern word that is a github.com URL or a
\* host-qualified path, "" for any other word
RepoPathOf(w) ==
  IF w = "https://github.com/yes/repo" THEN "yes/repo"
  ELSE IF w = "github.com/also/repo" THEN "also/repo"
  ELSE ""

\* PatternsAsRepoPaths taking every word with a slash for a repository path
PatternsAsRepoPaths_AnyPath(b) ==
  LET isPath(w) == RepoPathOf(w) # "" \/ w = "not/repo"
      pathOf(w) == IF w = "not/repo" THEN w ELSE RepoPathOf(w)
      urls == SelectSeq(b.Pattern.Value, isPath)
      rest == SelectSeq(b.Pattern.Value, LAMBDA w : ~isPath(w))
  IN  IF b.Pattern.kind # "Pattern" \/ b.Pattern.Negated \/ urls = <<>> THEN NilBasic
      ELSE Basic(b.Parameters \o [i \in 1..Len(urls) |-> Parameter("repo", pathOf(urls[i]))],
                 Pattern(IF rest = <<>> THEN <<"">> ELSE rest, FALSE,
                         b.Pattern.Annotation.Labels))

\* func PatternsAsRepoPaths(b query.Basic) *query.Basic: the words of the
\* pattern that are URLs or host-qualified paths become repo: parameters,
\* the other words stay the pattern; nil when no word is one
PatternsAsRepoPaths(b) ==
  LET urls == SelectSeq(b.Pattern.Value, LAMBDA w : RepoPathOf(w) # "")
      rest == SelectSeq(b.Pattern.Value, LAMBDA w : RepoPathOf(w) = "")
  IN  IF b.Pattern.kind # "Pattern" \/ b.Pattern.Negated \/ urls = <<>> THEN NilBasic
      ELSE Basic(b.Parameters \o [i \in 1..Len(urls) |-> Parameter("repo", RepoPathOf(urls[i]))],
                 Pattern(IF rest = <<>> THEN <<"">> ELSE rest, FALSE,
                         b.Pattern.Annotation.Labels))

RECURSIVE JoinSpace(_)
\* strings.Join(parts, " ") over texts given as sequences of atoms
JoinSpace(parts) ==
  IF parts = <<>> THEN <<>>
  ELSE IF Len(parts) = 1 THEN parts[1]
  ELSE parts[1] \o <<" ">> \o JoinSpace(Tail(parts))

\* (query.Basic).StringHuman of a clause with one pattern, as the sequence of
\* the atoms of the text: the parameters as field:value, a space, the
\* pattern, which is printed inside double quotes when it is labelled Quoted
Basic_StringHuman(b) ==
  LET words == JoinSpace([i \in 1..Len(b.Pattern.Value) |-> <<b.Pattern.Value[i]>>])
  IN  JoinSpace([i \in 1..Len(b.Parameters) |->
                   <<b.Parameters[i].Field, ":", b.Parameters[i].Value>>])
      \o <<" ">>
      \o (IF b.Pattern.Annotation.Labels = "Quoted"
          THEN <<"\"">> \o words \o <<"\"">> ELSE words)

RECURSIVE UnquotedPatterns_value(_)
\* the words of the visited terms, in order
UnquotedPatterns_value(leaves) ==
  IF leaves = <<>> THEN <<>>
  ELSE Head(leaves).Value \o UnquotedPatterns_value(Tail(leaves))

\* UnquotedPatterns merging the quoted terms only
UnquotedPatterns_QuotedOnly(b) ==
  LET leaves == VisitPattern(<<b.Pattern>>)
      quoted == SelectSeq(leaves, LAMBDA t : t.Annotation.Labels = "Quoted")
  IN  IF quoted = <<>> THEN NilBasic
      ELSE Basic(b.Parameters, Pattern(UnquotedPatterns_value(quoted), FALSE, "Quoted"))

\* func UnquotedPatterns(b query.Basic) *query.Basic: the terms of the
\* pattern, the quoted ones without their quotes, are merged in order into one
\* pattern that is a single string; nil when no term is quoted
UnquotedPatterns(b) ==
  LET leaves == VisitPattern(<<b.Pattern>>)
      quoted == SelectSeq(leaves, LAMBDA t : t.Annotation.Labels = "Quoted")
  IN  IF quoted = <<>> THEN NilBasic
      ELSE Basic(b.Parameters, Pattern(UnquotedPatterns_value(leaves), FALSE, "Quoted"))

\* the clause of `"result please" unless? "maybe" ok`
QuotedClause ==
  Basic(<<>>,
        Operator("Concat", <<Pattern(<<"result", "please">>, FALSE, "Quoted"),
                             Pattern(<<"unless?">>, FALSE, "Literal"),
                             Pattern(<<"maybe">>, FALSE, "Quoted"),
                             Pattern(<<"ok">>, FALSE, "Literal")>>))

\* the clause of `repo:sourcegraph "a b" "c"`, all of its terms quoted
AllQuotedClause ==
  Basic(<<Parameter("repo", "sourcegraph")>>,
        Operator("Concat", <<Pattern(<<"a", "b">>, FALSE, "Quoted"),
                             Pattern(<<"c">>, FALSE, "Quoted")>>))

\* the clause of `https://github.com/yes/repo not/repo github.com/also/repo
\* file:foo pattern`
UrlClause ==
  Basic(<<Parameter("file", "foo")>>,
        Pattern(<<"https://github.com/yes/repo", "not/repo", "github.com/also/repo",
                  "pattern">>, FALSE, "Literal"))

RuleInputs == Clauses \cup {UrlClause, QuotedClause, AllQuotedClause}

InitRules ==
  /\ rb \in RuleInputs
  /\ rcalls = <<>>
  /\ IdleMatch /\ IdleStream /\ IdleLimit /\ IdleCompile /\ IdleParallel /\ IdleTimeout
  /\ IdleCompute /\ IdleStore
  /\ IdleParse

\* OnlySelect normalising the parameters of its argument in place
CallOnlySelect_SelectRemovedInPlace ==
  /\ Len(rcalls) < MaxCalls
  /\ rcalls' = Append(rcalls, [rule |-> "OnlySelect", arg |-> rb, result |-> OnlySelect(rb)])
  /\ rb' = Basic(RemoveSelect(rb.Parameters), rb.Pattern)
  /\ UNCHANGED exceptRules

\* g := OnlySelect(b): b is passed by value, its parameters are copied by
\* ParametersToNodes and its pattern is only read
CallOnlySelect ==
  /\ Len(rcalls) < MaxCalls
  /\ rcalls' = Append(rcalls, [rule |-> "OnlySelect", arg |-> rb, result |-> OnlySelect(rb)])
  /\ rb' = rb
  /\ UNCHANGED exceptRules

\* g := UnorderedPatterns(b): the result shares b.Parameters, nothing is
\* written through it
CallUnorderedPatterns ==
  /\ Len(rcalls) < MaxCalls
  /\ rcalls' = Append(rcalls, [rule |-> "UnorderedPatterns", arg |-> rb,
                               result |-> UnorderedPatterns(rb)])
  /\ rb' = rb
  /\ UNCHANGED exceptRules

\* bs := BuildBasic(b), of either source file
CallBuildBasic ==
  /\ Len(rcalls) < MaxCalls
  /\ \E v \in {"OnlySelect", "UnorderedPatterns"} :
       rcalls' = Append(rcalls, [rule |-> IF v = "OnlySelect" THEN "BuildBasic_OnlySelect"
                                          ELSE "BuildBasic_UnorderedPatterns",
                                 arg |-> rb, result |-> BuildBasic(v, rb)])
  /\ rb' = rb
  /\ UNCHANGED exceptRules

\* newBasic := PatternsAsRepoPaths(basic)
CallPatternsAsRepoPaths ==
  /\ Len(rcalls) < MaxCalls
  /\ rcalls' = Append(rcalls, [rule |-> "PatternsAsRepoPaths", arg |-> rb,
                               result |-> PatternsAsRepoPaths(rb)])
  /\ rb' = rb
  /\ UNCHANGED exceptRules

\* newBasic := UnquotedPatterns(basic)
CallUnquotedPatterns ==
  /\ Len(rcalls) < MaxCalls
  /\ rcalls' = Append(rcalls, [rule |-> "UnquotedPatterns", arg |-> rb,
                               result |-> UnquotedPatterns(rb)])
  /\ rb' = rb
  /\ UNCHANGED exceptRules

NextRules ==
  \/ CallOnlySelect
  \/ CallUnorderedPatterns
  \/ CallBuildBasic
  \/ CallPatternsAsRepoPaths
  \/ CallUnquotedPatterns

-----------------------------------------------------------------------------
(* The PARALLEL fan-out over the backend branches of a clause *)

\* the batches a backend returns
ParallelBatches == {<<BackendMatch(1)>>, <<BackendMatch(MaxRanges), BackendMatch(0)>>}

InitParallel ==
  /\ pwork \in [Branches -> SeqsUpTo(ParallelBatches, MaxBatches)]
  /\ pfails \in [Branches -> BOOLEAN]
  /\ ppc = [b \in Branches |-> "run"]
  /\ psent = [b \in Branches |-> 0]
  /\ psink = <<>>
  /\ pcancelled = "no"
  /\ pout = [state |-> "running", alert |-> "none", err |-> "none"]
  /\ IdleMatch /\ IdleStream /\ IdleLimit /\ IdleCompile /\ IdleRules /\ IdleTimeout
  /\ IdleCompute /\ IdleStore
  /\ IdleParse

\* a branch whose backend works sends its next batch to the shared sink
ParallelSend(b) ==
  /\ ppc[b] = "run" /\ ~pfails[b]
  /\ psent[b] < Len(pwork[b])
  /\ psink' = Append(psink, [branch |-> b, batch |-> pwork[b][psent[b] + 1]])
  /\ psent' = [psent EXCEPT ![b] = @ + 1]
  /\ UNCHANGED <<pwork, pfails, ppc, pcancelled, pout>>
  /\ UNCHANGED exceptParallel

\* a branch that has sent everything returns without error
ParallelBranchDone(b) ==
  /\ ppc[b] = "run" /\ ~pfails[b]
  /\ psent[b] = Len(pwork[b])
  /\ ppc' = [ppc EXCEPT ![b] = "ok"]
  /\ UNCHANGED <<pwork, pfails, psent, psink, pcancelled, pout>>
  /\ UNCHANGED exceptParallel

\* a failing branch that also cancels the context of its siblings
ParallelBranchFails_CancelSiblings(b) ==
  /\ ppc[b] = "run" /\ pfails[b]
  /\ ppc' = [ppc EXCEPT ![b] = "err"]
  /\ pcancelled' = IF pcancelled = "no" THEN "error" ELSE pcancelled
  /\ UNCHANGED <<pwork, pfails, psent, psink, pout>>
  /\ UNCHANGED exceptParallel

\* the backend of a branch fails: the branch returns its error; the context
\* of the siblings is left alone
ParallelBranchFails(b) ==
  /\ ppc[b] = "run" /\ pfails[b]
  /\ ppc' = [ppc EXCEPT ![b] = "err"]
  /\ UNCHANGED <<pwork, pfails, psent, psink, pcancelled, pout>>
  /\ UNCHANGED exceptParallel

\* the parent cancels the context the fan-out runs in
ParallelParentCancels ==
  /\ pout.state = "running" /\ pcancelled = "no"
  /\ pcancelled' = "parent"
  /\ UNCHANGED <<pwork, pfails, ppc, psent, psink, pout>>
  /\ UNCHANGED exceptParallel

\* a running branch observes the cancellation of its context and stops
ParallelBranchCancelled(b) ==
  /\ ppc[b] = "run" /\ pcancelled # "no"
  /\ ppc' = [ppc EXCEPT ![b] = "cancelled"]
  /\ UNCHANGED <<pwork, pfails, psent, psink, pcancelled, pout>>
  /\ UNCHANGED exceptParallel

\* all branches have returned: Run returns, the errors of the branches
\* folded into the alert
ParallelReturn ==
  /\ pout.state = "running"
  /\ \A b \in Branches : ppc[b] # "run"
  /\ pout' = [state |-> "returned",
              alert |-> IF \E b \in Branches : ppc[b] = "err" THEN "partial results"
                        ELSE "none",
              err |-> "none"]
  /\ UNCHANGED <<pwork, pfails, ppc, psent, psink, pcancelled>>
  /\ UNCHANGED exceptParallel

NextParallel ==
  \/ \E b \in Branches : ParallelSend(b)
  \/ \E b \in Branches : ParallelBranchDone(b)
  \/ \E b \in Branches : ParallelBranchFails(b)
  \/ \E b \in Branches : ParallelBranchCancelled(b)
  \/ ParallelParentCancels
  \/ ParallelReturn

-----------------------------------------------------------------------------
(* The TIMEOUT job over one child *)

InitTimeout ==
  /\ tdeadline \in 1..MaxDeadline
  /\ tclock = 0
  /\ tctx = "live"
  /\ tobserves \in BOOLEAN
  /\ ttotal \in 0..MaxWork
  /\ tdelivered = 0
  /\ tchild = "idle"
  /\ tpc = "running"
  /\ talert = "none"
  /\ IdleMatch /\ IdleStream /\ IdleLimit /\ IdleCompile /\ IdleRules /\ IdleParallel
  /\ IdleCompute /\ IdleStore
  /\ IdleParse

\* time passes; at the deadline the child's context expires
TimeoutTick ==
  /\ tpc = "running" /\ tclock < MaxDeadline
  /\ tclock' = tclock + 1
  /\ tctx' = IF tclock + 1 >= tdeadline THEN "expired" ELSE tctx
  /\ UNCHANGED <<tdeadline, tobserves, ttotal, tdelivered, tchild, tpc, talert>>
  /\ UNCHANGED exceptTimeout

\* the child starts its next backend call; a child that looks at its
\* context does not once the context has expired
ChildStartsCall ==
  /\ tchild = "idle" /\ tdelivered < ttotal
  /\ ~(tobserves /\ tctx = "expired")
  /\ tchild' = "call"
  /\ UNCHANGED <<tdeadline, tclock, tctx, tobserves, ttotal, tdelivered, tpc, talert>>
  /\ UNCHANGED exceptTimeout

\* the backend call returns (it is bounded by the backend's own I/O
\* timeout) and its results are delivered
ChildCallReturns ==
  /\ tchild = "call"
  /\ tchild' = "idle"
  /\ tdelivered' = tdelivered + 1
  /\ UNCHANGED <<tdeadline, tclock, tctx, tobserves, ttotal, tpc, talert>>
  /\ UNCHANGED exceptTimeout

\* a child that looks at its context finds it expired and returns the
\* cancellation error, between calls or out of a call
ChildObservesCancellation ==
  /\ tchild \in {"idle", "call"} /\ tobserves /\ tctx = "expired"
  /\ tchild' = "cancelled"
  /\ UNCHANGED <<tdeadline, tclock, tctx, tobserves, ttotal, tdelivered, tpc, talert>>
  /\ UNCHANGED exceptTimeout

\* the child has made all its calls and returns without error
ChildCompletes ==
  /\ tchild = "idle" /\ tdelivered = ttotal
  /\ tchild' = "done"
  /\ UNCHANGED <<tdeadline, tclock, tctx, tobserves, ttotal, tdelivered, tpc, talert>>
  /\ UNCHANGED exceptTimeout

\* TIMEOUT reporting "timed out" whatever its child returned
TimeoutReturns_AlwaysTimedOut ==
  /\ tpc = "running" /\ tchild \in {"done", "cancelled"}
  /\ tpc' = "returned"
  /\ talert' = "timed out"
  /\ UNCHANGED <<tdeadline, tclock, tctx, tobserves, ttotal, tdelivered, tchild>>
  /\ UNCHANGED exceptTimeout

\* the child has returned: TIMEOUT returns, a cancellation error of the
\* child turned into the "timed out" alert
TimeoutReturns ==
  /\ tpc = "running" /\ tchild \in {"done", "cancelled"}
  /\ tpc' = "returned"
  /\ talert' = IF tchild = "cancelled" THEN "timed out" ELSE "none"
  /\ UNCHANGED <<tdeadline, tclock, tctx, tobserves, ttotal, tdelivered, tchild>>
  /\ UNCHANGED exceptTimeout

NextTimeout ==
  \/ TimeoutTick
  \/ ChildStartsCall
  \/ ChildCallReturns
  \/ ChildObservesCancellation
  \/ ChildCompletes
  \/ TimeoutReturns

-----------------------------------------------------------------------------
(* NewComputeStream, its search goroutine and the consumer of its events *)

\* the steps of NewComputeStream that can fail, in order, and "started"
ComputePaths == {"parse", "convert", "settings", "plan", "started"}

InitCompute ==
  /\ kpath = "call"
  /\ keventsC = "nil"
  /\ kcloses = 0
  /\ kpc = "none"
  /\ kleft \in 0..MaxEvents
  /\ kctx = "live"
  /\ kconsumer = "reading"
  /\ kreceived = 0
  /\ kfinal = <<>>
  /\ kwait = "none"
  /\ kerr = "nil"
  /\ IdleMatch /\ IdleStream /\ IdleLimit /\ IdleCompile /\ IdleRules /\ IdleParallel
  /\ IdleTimeout /\ IdleStore
  /\ IdleParse

\* NewComputeStream(ctx, db, query): a parse or conversion error returns a
\* nil channel, a settings or plan error a closed one, otherwise the search
\* goroutine is started over the open channel
NewComputeStream ==
  /\ kpath = "call"
  /\ \E path \in ComputePaths :
       /\ kpath' = path
       /\ keventsC' = IF path \in {"parse", "convert"} THEN "nil"
                      ELSE IF path \in {"settings", "plan"} THEN "closed"
                      ELSE "open"
       /\ kcloses' = IF path \in {"settings", "plan"} THEN 1 ELSE 0
       /\ kpc' = IF path = "started" THEN "execute" ELSE "none"
  /\ UNCHANGED <<kleft, kctx, kconsumer, kreceived, kfinal, kwait, kerr>>
  /\ UNCHANGED exceptCompute

\* the caller cancels ctx
CancelCtx ==
  /\ kctx = "live"
  /\ kctx' = "cancelled"
  /\ UNCHANGED <<kpath, keventsC, kcloses, kpc, kleft, kconsumer, kreceived, kfinal, kwait, kerr>>
  /\ UNCHANGED exceptCompute

\* the consumer stops receiving from the events channel
ConsumerStops ==
  /\ kpath # "call" /\ kconsumer = "reading"
  /\ kconsumer' = "stopped"
  /\ UNCHANGED <<kpath, keventsC, kcloses, kpc, kleft, kctx, kreceived, kfinal, kwait, kerr>>
  /\ UNCHANGED exceptCompute

\* Execute streams a result: the callback reaches its send on eventsC
CallbackSends ==
  /\ kpc = "execute" /\ kleft > 0
  /\ kpc' = "sending"
  /\ UNCHANGED <<kpath, keventsC, kcloses, kleft, kctx, kconsumer, kreceived, kfinal, kwait, kerr>>
  /\ UNCHANGED exceptCompute

\* the send on the unbuffered eventsC completes when the consumer receives
ConsumerReceives ==
  /\ kpc = "sending" /\ kconsumer = "reading"
  /\ kpc' = "execute"
  /\ kleft' = kleft - 1
  /\ kreceived' = kreceived + 1
  /\ UNCHANGED <<kpath, keventsC, kcloses, kctx, kconsumer, kfinal, kwait, kerr>>
  /\ UNCHANGED exceptCompute

\* Execute returns, when the search is over or ctx is cancelled: the
\* goroutine puts the error in final and closes eventsC and final
ExecuteReturns ==
  /\ kpc = "execute" /\ (kleft = 0 \/ kctx = "cancelled")
  /\ \E err \in {"nil"} \cup (IF kctx = "cancelled" THEN {"cancelled"} ELSE {}) :
       kfinal' = <<err>>
  /\ keventsC' = "closed"
  /\ kcloses' = kcloses + 1
  /\ kpc' = "done"
  /\ UNCHANGED <<kpath, kleft, kctx, kconsumer, kreceived, kwait, kerr>>
  /\ UNCHANGED exceptCompute

\* the caller calls the returned wait function
WaitCalled ==
  /\ kpath # "call" /\ kwait = "none"
  /\ kwait' = "waiting"
  /\ UNCHANGED <<kpath, keventsC, kcloses, kpc, kleft, kctx, kconsumer, kreceived, kfinal, kerr>>
  /\ UNCHANGED exceptCompute

\* the wait function returns: the error of the failed step, or the one it
\* receives from final
WaitReturns ==
  /\ kwait = "waiting"
  /\ IF kpath = "started"
     THEN /\ kfinal # <<>>
          /\ kerr' = kfinal[1]
          /\ kfinal' = <<>>
     ELSE /\ kerr' = kpath
          /\ UNCHANGED kfinal
  /\ kwait' = "returned"
  /\ UNCHANGED <<kpath, keventsC, kcloses, kpc, kleft, kctx, kconsumer, kreceived>>
  /\ UNCHANGED exceptCompute

NextCompute ==
  \/ NewComputeStream
  \/ CancelCtx
  \/ ConsumerStops
  \/ CallbackSends
  \/ ConsumerReceives
  \/ ExecuteReturns
  \/ WaitCalled
  \/ WaitReturns

-----------------------------------------------------------------------------
(* The dependencies store: lockfile results *)

\* a shared.PackageDependency, by the values of the methods the store calls
PackageDependency(scheme, name, v) ==
  [RepoName |-> <<scheme, "/", name>>, GitTagFromVersion |-> <<"v", v>>,
   Scheme |-> scheme, PackageSyntax |-> name, PackageVersion |-> v]

PkgA == PackageDependency("npm", "a", "1")
PkgB == PackageDependency("npm", "b", "1")
PkgC == PackageDependency("npm", "c", "1")

\* the dependencies given to the upserts
Packages == {PkgA, PkgB}

\* ORDER BY repository_name, revspec over the packages of the model
PackageOrder == <<PkgA, PkgB, PkgC>>

\* table repo: the names that have a row (their id is taken to be the name)
RepoTable == {"github.com/a/a"}

\* the repoName arguments: a repository with a row in repo and one without
RepoNames == {"github.com/a/a", "github.com/x/x"}

\* the commit arguments
Commits == {"c1"}

\* fmt.Sprintf("resolution-%s-%s", repoName, commit)
ResolutionID(repoName, commit) == <<"resolution-", repoName, "-", commit>>

\* the row populatePackageDependencyChannel sends for a dependency
TemporaryRow(dep, resolutionId) ==
  [repository_name |-> dep.RepoName, revspec |-> dep.GitTagFromVersion,
   package_scheme |-> dep.Scheme, package_name |-> dep.PackageSyntax,
   package_version |-> dep.PackageVersion, depends_on |-> <<>>,
   resolution_id |-> resolutionId]

\* func populatePackageDependencyChannel(deps, resolutionId): the rows of
\* t_codeintel_lockfile_references
populatePackageDependencyChannel(deps, resolutionId) ==
  [i \in 1..Len(deps) |-> TemporaryRow(deps[i], resolutionId)]

\* the join condition of the upsert queries, which is also what ON CONFLICT
\* compares: every column but depends_on
SameReference(r, t) ==
  /\ r.repository_name = t.repository_name /\ r.revspec = t.revspec
  /\ r.package_scheme = t.package_scheme /\ r.package_name = t.package_name
  /\ r.package_version = t.package_version /\ r.resolution_id = t.resolution_id

RECURSIVE InsertReferences(_, _)
\* INSERT INTO codeintel_lockfile_references SELECT .. FROM
\* t_codeintel_lockfile_references ON CONFLICT DO NOTHING: a row gets the next
\* id, its last_check_at is NULL (-1)
InsertReferences(refs, temporary) ==
  IF temporary = <<>> THEN refs
  ELSE LET t == Head(temporary)
           row == [id |-> Len(refs) + 1, repository_name |-> t.repository_name,
                   revspec |-> t.revspec, package_scheme |-> t.package_scheme,
                   package_name |-> t.package_name,
                   package_version |-> t.package_version,
                   depends_on |-> t.depends_on, resolution_id |-> t.resolution_id,
                   last_check_at |-> -1]
       IN  IF \E i \in 1..Len(refs) : SameReference(refs[i], t)
           THEN InsertReferences(refs, Tail(temporary))
           ELSE InsertReferences(Append(refs, row), Tail(temporary))

\* upsertLockfileReferencesQuery: the table after the insert and the ids of
\* the inserted rows and of the rows that were there, ORDER BY id
upsertLockfileReferencesQuery(refs, temporary) ==
  LET after == InsertReferences(refs, temporary)
      hit == SelectSeq(after, LAMBDA r : \E i \in 1..Len(temporary) :
                                          SameReference(r, temporary[i]))
  IN  [references |-> after, ids |-> [i \in 1..Len(hit) |-> hit[i].id]]

\* insertLockfilesQuery: one row per row of repo with the name; on a conflict
\* on (repository_id, commit_bytea) the reference ids are replaced
insertLockfilesQuery(files, commit, idsArray, resolutionID, repoName) ==
  IF repoName \notin RepoTable THEN files
  ELSE IF \E f \in files : f.repository_id = repoName /\ f.commit_bytea = commit
  THEN {IF f.repository_id = repoName /\ f.commit_bytea = commit
        THEN [f EXCEPT !.codeintel_lockfile_reference_ids = idsArray] ELSE f :
        f \in files}
  ELSE files \cup {[repository_id |-> repoName, commit_bytea |-> commit,
                    codeintel_lockfile_reference_ids |-> idsArray,
                    resolution_id |-> resolutionID]}

\* tx.db.Done(err) keeping what the transaction wrote whatever err is
Done_AlwaysCommit(before, tx, err) == tx

\* tx.db.Done(err): the transaction is committed when err is nil and rolled
\* back otherwise
Done(before, tx, err) == IF err = "nil" THEN tx ELSE before

\* the tables a transaction of the lockfile operations works on
Tables == [references |-> references, lockfiles |-> lockfiles]

\* UpsertLockfileDependencies replacing the reference ids by the ids of the
\* rows it inserted only
UpsertLockfileDependencies_NewIdsOnly(repoName, commit, deps) ==
  LET resolutionID == ResolutionID(repoName, commit)
      up == upsertLockfileReferencesQuery(references,
              populatePackageDependencyChannel(deps, resolutionID))
      ids == SelectSeq(up.ids, LAMBDA i : i > Len(references))
      tx == [references |-> up.references,
             lockfiles |-> insertLockfilesQuery(lockfiles, commit, ids, resolutionID,
                                                repoName)]
  IN  [tables |-> Done(Tables, tx, "nil"), err |-> "nil"]

\* func (s *store) UpsertLockfileDependencies(ctx, repoName, commit, deps)
UpsertLockfileDependencies(repoName, commit, deps) ==
  LET resolutionID == ResolutionID(repoName, commit)
      up == upsertLockfileReferencesQuery(references,
              populatePackageDependencyChannel(deps, resolutionID))
      tx == [references |-> up.references,
             lockfiles |-> insertLockfilesQuery(lockfiles, commit, up.ids, resolutionID,
                                                repoName)]
  IN  [tables |-> Done(Tables, tx, "nil"), err |-> "nil"]

\* a shared.DependencyGraph, by what Empty, AllEdges and Roots return
DependencyGraph(edges, roots) == [AllEdges |-> edges, Roots |-> roots]

\* the graphs given to UpsertLockfileGraph: none, a -> b with root a, an edge
\* to a package c, a root c
Graphs ==
  {DependencyGraph(<<>>, <<>>),
   DependencyGraph(<<<<PkgA, PkgB>>>>, <<PkgA>>),
   DependencyGraph(<<<<PkgA, PkgC>>>>, <<PkgA>>),
   DependencyGraph(<<<<PkgA, PkgB>>>>, <<PkgC>>)}

\* the dependencies given to UpsertLockfileGraph
GraphDeps == {<<>>, <<PkgA>>, <<PkgA, PkgB>>}

\* graph.Empty()
Empty(graph) == graph.AllEdges = <<>> /\ graph.Roots = <<>>

\* scanIdNames over upsertLockfileReferences2Query: the ids as in
\* upsertLockfileReferencesQuery, and the map from package_name to id (the
\* row with the highest id when a name comes twice)
scanIdNames(refs, temporary) ==
  LET up == upsertLockfileReferencesQuery(refs, temporary)
      idsOf(name) == {i \in Elements(up.ids) : up.references[i].package_name = name}
      names == {up.references[i].package_name : i \in Elements(up.ids)}
  IN  [references |-> up.references, ids |-> up.ids,
       nameIDs |-> [n \in names |->
                      CHOOSE i \in idsOf(n) : \A j \in idsOf(n) : j <= i]]

RECURSIVE FirstMissing(_, _)
\* the loop over graph.AllEdges(): the error of the first edge whose source
\* or target has no id, "nil" when every edge has both
FirstMissing(edges, nameIDs) ==
  IF edges = <<>> THEN "nil"
  ELSE IF Head(edges)[1].PackageSyntax \notin DOMAIN nameIDs THEN "id for source not found"
  ELSE IF Head(edges)[2].PackageSyntax \notin DOMAIN nameIDs THEN "id for target not found"
  ELSE FirstMissing(Tail(edges), nameIDs)

\* the map dependencies: the target ids of a source id, in the order of the edges
Targets(edges, nameIDs, source) ==
  LET from == SelectSeq(edges, LAMBDA e : nameIDs[e[1].PackageSyntax] = source)
  IN  [i \in 1..Len(from) |-> nameIDs[from[i][2].PackageSyntax]]

\* insertLockfilesEdgesQuery for every source of the map dependencies
insertLockfilesEdgesQuery(refs, edges, nameIDs, resolutionID) ==
  LET sources == {nameIDs[edges[i][1].PackageSyntax] : i \in 1..Len(edges)}
  IN  [i \in 1..Len(refs) |->
         IF refs[i].id \in sources /\ refs[i].resolution_id = resolutionID
         THEN [refs[i] EXCEPT !.depends_on = Targets(edges, nameIDs, refs[i].id)]
         ELSE refs[i]]

\* func (s *store) UpsertLockfileGraph(ctx, repoName, commit, deps, graph):
\* the tables the transaction has written when it ends, its error, and the
\* tables after tx.db.Done(err)
UpsertLockfileGraph(repoName, commit, deps, graph) ==
  LET resolutionID == ResolutionID(repoName, commit)
      up == scanIdNames(references, populatePackageDependencyChannel(deps, resolutionID))
      edgeErr == FirstMissing(graph.AllEdges, up.nameIDs)
      withEdges == insertLockfilesEdgesQuery(up.references, graph.AllEdges, up.nameIDs,
                                             resolutionID)
      rootErr == IF \E i \in 1..Len(graph.Roots) :
                      graph.Roots[i].PackageSyntax \notin DOMAIN up.nameIDs
                 THEN "id for root not found" ELSE "nil"
      roots == [i \in 1..Len(graph.Roots) |-> up.nameIDs[graph.Roots[i].PackageSyntax]]
      end ==
        IF Empty(graph)
        THEN [tx |-> [references |-> up.references,
                      lockfiles |-> insertLockfilesQuery(lockfiles, commit, up.ids,
                                                         resolutionID, repoName)],
              err |-> "nil"]
        ELSE IF edgeErr # "nil"
        THEN [tx |-> [references |-> up.references, lockfiles |-> lockfiles],
              err |-> edgeErr]
        ELSE IF rootErr # "nil"
        THEN [tx |-> [references |-> withEdges, lockfiles |-> lockfiles], err |-> rootErr]
        ELSE [tx |-> [references |-> withEdges,
                      lockfiles |-> insertLockfilesQuery(lockfiles, commit, roots,
                                                         resolutionID, repoName)],
              err |-> "nil"]
  IN  [tables |-> Done(Tables, end.tx, end.err), tx |-> end.tx, err |-> end.err]

\* scanPackageDependencies: the dependency of a row
ScanPackageDependency(r) ==
  [RepoName |-> r.repository_name, GitTagFromVersion |-> r.revspec,
   Scheme |-> r.package_scheme, PackageSyntax |-> r.package_name,
   PackageVersion |-> r.package_version]

\* lockfileDependenciesQuery: the references whose id is in the ids of the
\* lockfiles rows of the repository, commit and resolution, ORDER BY
\* repository_name, revspec
lockfileDependenciesQuery(repoName, commit, resolutionID) ==
  LET ids == UNION {{f.codeintel_lockfile_reference_ids[i] :
                       i \in 1..Len(f.codeintel_lockfile_reference_ids)} :
                    f \in {g \in lockfiles :
                             /\ repoName \in RepoTable /\ g.repository_id = repoName
                             /\ g.commit_bytea = commit
                             /\ g.resolution_id = resolutionID}}
      rows == SelectSeq(references, LAMBDA r : r.id \in ids)
      found == {ScanPackageDependency(rows[i]) : i \in 1..Len(rows)}
  IN  SelectSeq(PackageOrder, LAMBDA d : d \in found)

\* lockfileDependenciesExistsQuery
lockfileDependenciesExistsQuery(repoName, commit) ==
  \E f \in lockfiles :
    repoName \in RepoTable /\ f.repository_id = repoName /\ f.commit_bytea = commit

\* func (s *store) LockfileDependencies(ctx, repoName, commit) (deps, found, err)
LockfileDependencies(repoName, commit) ==
  LET deps == lockfileDependenciesQuery(repoName, commit, ResolutionID(repoName, commit))
  IN  IF Len(deps) = 0
      THEN [deps |-> <<>>, found |-> lockfileDependenciesExistsQuery(repoName, commit),
            err |-> "nil"]
      ELSE [deps |-> deps, found |-> TRUE, err |-> "nil"]


\* the lockfile results never upserted
NeverUpserted == [pair \in RepoNames \X Commits |-> [by |-> "none", deps |-> <<>>]]

InitLockfiles ==
  /\ references = <<>>
  /\ lockfiles = {}
  /\ dependencyRepos = <<>>
  /\ now = 0
  /\ sop = [name |-> "none"]
  /\ sret = [err |-> "nil"]
  /\ sprev = Tables
  /\ upserted = NeverUpserted
  /\ returned = <<>>
  /\ IdleMatch /\ IdleStream /\ IdleLimit /\ IdleCompile /\ IdleRules /\ IdleParallel
  /\ IdleTimeout /\ IdleCompute
  /\ IdleParse

\* err := s.UpsertLockfileDependencies(ctx, repoName, commit, deps)
DoUpsertLockfileDependencies ==
  \E repoName \in RepoNames, commit \in Commits, deps \in SeqsUpTo(Packages, MaxDeps) :
    LET r == UpsertLockfileDependencies(repoName, commit, deps)
    IN  /\ references' = r.tables.references
        /\ lockfiles' = r.tables.lockfiles
        /\ sop' = [name |-> "UpsertLockfileDependencies", repoName |-> repoName,
                   commit |-> commit, deps |-> deps]
        /\ sret' = [err |-> r.err]
        /\ upserted' = IF r.err = "nil"
                       THEN [upserted EXCEPT ![<<repoName, commit>>] =
                               [by |-> "UpsertLockfileDependencies", deps |-> deps]]
                       ELSE upserted
        /\ UNCHANGED <<dependencyRepos, now, sprev, returned>>
        /\ UNCHANGED exceptStore

\* deps, found, err := s.LockfileDependencies(ctx, repoName, commit)
DoLockfileDependencies ==
  \E repoName \in RepoNames, commit \in Commits :
    LET r == LockfileDependencies(repoName, commit)
    IN  /\ sop' = [name |-> "LockfileDependencies", repoName |-> repoName,
                   commit |-> commit]
        /\ sret' = r
        /\ UNCHANGED <<references, lockfiles, dependencyRepos, now, sprev, upserted, returned>>
        /\ UNCHANGED exceptStore

\* err := s.UpsertLockfileGraph(ctx, repoName, commit, deps, graph); sprev
\* keeps the tables before the call, sret what the transaction had written
\* when it ended
DoUpsertLockfileGraph ==
  \E repoName \in RepoNames, commit \in Commits, deps \in GraphDeps, graph \in Graphs :
    LET r == UpsertLockfileGraph(repoName, commit, deps, graph)
    IN  /\ references' = r.tables.references
        /\ lockfiles' = r.tables.lockfiles
        /\ sop' = [name |-> "UpsertLockfileGraph", repoName |-> repoName,
                   commit |-> commit, deps |-> deps, graph |-> graph]
        /\ sret' = [err |-> r.err, wrote |-> r.tx # Tables]
        /\ sprev' = Tables
        /\ upserted' = IF r.err = "nil"
                       THEN [upserted EXCEPT ![<<repoName, commit>>] =
                               [by |-> "UpsertLockfileGraph", deps |-> <<>>]]
                       ELSE upserted
        /\ UNCHANGED <<dependencyRepos, now, returned>>
        /\ UNCHANGED exceptStore

NextLockfiles ==
  \/ DoUpsertLockfileDependencies
  \/ DoLockfileDependencies

NextLockfileGraph ==
  \/ DoUpsertLockfileGraph
  \/ DoLockfileDependencies

-----------------------------------------------------------------------------
(* The dependencies store: SelectRepoRevisionsToResolve *)

\* int64(minimumCheckInterval/time.Hour): the whole hours of the interval
WholeHours(minimumCheckInterval) == minimumCheckInterval \div Hour

\* the (repository_name, revspec) of a row of codeintel_lockfile_references
RepoRevision(r) == <<r.repository_name, r.revspec>>

\* the WHERE of candidates: last_check_at IS NULL OR
\* now - last_check_at >= (hours * '1 hour'::interval)
DueForCheck(r, at, hours) ==
  r.last_check_at = -1 \/ at - r.last_check_at >= hours * Hour

\* candidates: the due rows, GROUP BY and ORDER BY repository_name, revspec,
\* LIMIT batchSize
Candidates(refs, at, hours, batchSize) ==
  LET due == {RepoRevision(refs[i]) :
                i \in {j \in 1..Len(refs) : DueForCheck(refs[j], at, hours)}}
      ordered == SelectSeq([i \in 1..Len(PackageOrder) |->
                              <<PackageOrder[i].RepoName,
                                PackageOrder[i].GitTagFromVersion>>],
                           LAMBDA p : p \in due)
  IN  SubSeq(ordered, 1, IF Len(ordered) < batchSize THEN Len(ordered) ELSE batchSize)

\* updated: SET last_check_at = now WHERE (repository_name, revspec) IN candidates
UpdateLastCheck(refs, candidates, at) ==
  [i \in 1..Len(refs) |->
     IF RepoRevision(refs[i]) \in Elements(candidates)
     THEN [refs[i] EXCEPT !.last_check_at = at] ELSE refs[i]]

\* the loop over rows: m[repositoryName] = append(m[repositoryName], commit)
RowsToMap(rows) ==
  [name \in {rows[i][1] : i \in 1..Len(rows)} |->
     LET of == SelectSeq(rows, LAMBDA p : p[1] = name)
     IN  [i \in 1..Len(of) |-> of[i][2]]]

\* func (s *store) selectRepoRevisionsToResolve(ctx, batchSize,
\* minimumCheckInterval, now)
selectRepoRevisionsToResolve(refs, batchSize, minimumCheckInterval, at) ==
  LET rows == Candidates(refs, at, WholeHours(minimumCheckInterval), batchSize)
  IN  [references |-> UpdateLastCheck(refs, rows, at), m |-> RowsToMap(rows)]

\* the (repository, revspec) pairs of a returned map
Pairs(m) == UNION {{<<name, m[name][i]>> : i \in 1..Len(m[name])} : name \in DOMAIN m}

\* the pairs of the packages of the model
RepoRevisions == {<<d.RepoName, d.GitTagFromVersion>> : d \in Packages}

\* the store after UpsertLockfileDependencies(repo, "c1", <<a, b>>) on an
\* empty database; no pair has been returned yet
InitResolve ==
  /\ LET resolutionID == ResolutionID("github.com/a/a", "c1")
         up == upsertLockfileReferencesQuery(
                 <<>>, populatePackageDependencyChannel(<<PkgA, PkgB>>, resolutionID))
     IN  /\ references = up.references
         /\ lockfiles = insertLockfilesQuery({}, "c1", up.ids, resolutionID,
                                             "github.com/a/a")
  /\ dependencyRepos = <<>>
  /\ now = 0
  /\ sop = [name |-> "none"]
  /\ sret = [err |-> "nil"]
  /\ returned = [p \in RepoRevisions |-> [at |-> -1, minimumCheckInterval |-> 0]]
  /\ sprev = returned
  /\ upserted = <<>>
  /\ IdleMatch /\ IdleStream /\ IdleLimit /\ IdleCompile /\ IdleRules /\ IdleParallel
  /\ IdleTimeout /\ IdleCompute
  /\ IdleParse

\* time.Now() moves on by half an hour
TimePasses ==
  /\ now < MaxTime
  /\ now' = now + 1
  /\ UNCHANGED <<references, lockfiles, dependencyRepos, sop, sret, sprev, upserted,
                 returned>>
  /\ UNCHANGED exceptStore

\* m, err := s.SelectRepoRevisionsToResolve(ctx, batchSize, minimumCheckInterval);
\* sprev keeps when and with which interval every pair was returned before
DoSelectRepoRevisionsToResolve ==
  \E batchSize \in 1..MaxBatchSize, minimumCheckInterval \in 1..MaxInterval :
    LET r == selectRepoRevisionsToResolve(references, batchSize, minimumCheckInterval,
                                          now)
    IN  /\ references' = r.references
        /\ sop' = [name |-> "SelectRepoRevisionsToResolve", batchSize |-> batchSize,
                   minimumCheckInterval |-> minimumCheckInterval]
        /\ sret' = [m |-> r.m, err |-> "nil"]
        /\ sprev' = returned
        /\ returned' = [p \in DOMAIN returned |->
                          IF p \in Pairs(r.m)
                          THEN [at |-> now,
                                minimumCheckInterval |-> minimumCheckInterval]
                          ELSE returned[p]]
        /\ UNCHANGED <<lockfiles, dependencyRepos, now, upserted>>
        /\ UNCHANGED exceptStore

NextResolve ==
  \/ TimePasses
  \/ DoSelectRepoRevisionsToResolve

-----------------------------------------------------------------------------
(* The dependencies store: dependency repos *)

\* shared.Repo as given to UpsertDependencyRepos (no ID yet)
DependencyRepo(scheme, name, v) == [Scheme |-> scheme, Name |-> name, Version |-> v]

\* the dependency repos given to the upsert
DependencyRepoInputs ==
  {DependencyRepo("npm", "a", "1"), DependencyRepo("npm", "a", "2"),
   DependencyRepo("go", "b", "1")}

\* whether a row of lsif_dependency_repos holds this scheme, name and version
SameDependencyRepo(row, dep) ==
  row.scheme = dep.Scheme /\ row.name = dep.Name /\ row.version = dep.Version

RECURSIVE WithInserterWithReturn(_, _)
\* batch.WithInserterWithReturn(.., "lsif_dependency_repos", .., "ON CONFLICT
\* DO NOTHING", {id, scheme, name, version}, ..): the values are inserted in
\* order, a value whose scheme, name and version are in the table already is
\* skipped, and the inserted rows are returned
WithInserterWithReturn(table, values) ==
  IF values = <<>> THEN [table |-> table, returning |-> <<>>]
  ELSE LET dep == Head(values)
           row == [id |-> Len(table) + 1, scheme |-> dep.Scheme, name |-> dep.Name,
                   version |-> dep.Version]
       IN  IF \E i \in 1..Len(table) : SameDependencyRepo(table[i], dep)
           THEN WithInserterWithReturn(table, Tail(values))
           ELSE LET rest == WithInserterWithReturn(Append(table, row), Tail(values))
                IN  [table |-> rest.table, returning |-> <<row>> \o rest.returning]

\* scanDependencyRepo: the shared.Repo of a returned row
scanDependencyRepo(row) ==
  [ID |-> row.id, Scheme |-> row.scheme, Name |-> row.name, Version |-> row.version]

\* UpsertDependencyRepos returning every repo it was given
UpsertDependencyRepos_ReturnsGiven(deps) ==
  LET r == WithInserterWithReturn(dependencyRepos, deps)
      rows == SelectSeq(r.table, LAMBDA row : \E i \in 1..Len(deps) :
                                               SameDependencyRepo(row, deps[i]))
  IN  [table |-> r.table,
       newDeps |-> [i \in 1..Len(rows) |-> scanDependencyRepo(rows[i])],
       err |-> "nil"]

\* func (s *store) UpsertDependencyRepos(ctx, deps) (newDeps, err): the
\* callback inserts every dep, returningScanner appends every returned row
UpsertDependencyRepos(deps) ==
  LET r == WithInserterWithReturn(dependencyRepos, deps)
  IN  [table |-> r.table,
       newDeps |-> [i \in 1..Len(r.returning) |-> scanDependencyRepo(r.returning[i])],
       err |-> "nil"]

InitDependencyRepos ==
  /\ references = <<>>
  /\ lockfiles = {}
  /\ dependencyRepos = <<>>
  /\ now = 0
  /\ sop = [name |-> "none"]
  /\ sret = [err |-> "nil"]
  /\ sprev = [dependencyRepos |-> <<>>, sop |-> [name |-> "none"], sret |-> [err |-> "nil"]]
  /\ upserted = <<>>
  /\ returned = <<>>
  /\ IdleMatch /\ IdleStream /\ IdleLimit /\ IdleCompile /\ IdleRules /\ IdleParallel
  /\ IdleTimeout /\ IdleCompute
  /\ IdleParse

\* newDeps, err := s.UpsertDependencyRepos(ctx, deps)
DoUpsertDependencyRepos ==
  \E deps \in SeqsUpTo(DependencyRepoInputs, MaxDeps) :
    LET r == UpsertDependencyRepos(deps)
    IN  /\ dependencyRepos' = r.table
        /\ sop' = [name |-> "UpsertDependencyRepos", deps |-> deps]
        /\ sret' = [newDeps |-> r.newDeps, err |-> r.err]
        /\ sprev' = [dependencyRepos |-> dependencyRepos, sop |-> sop, sret |-> sret]
        /\ UNCHANGED <<references, lockfiles, now, upserted, returned>>
        /\ UNCHANGED exceptStore

NextDependencyRepos == DoUpsertDependencyRepos

-----------------------------------------------------------------------------
(* parseDiffString *)

\* a hunk header line that headerRegex matches, by the groups of the match
HunkHeaderLine(oldStart, header) ==
  [kind |-> "@",
   text |-> [oldStart |-> oldStart, oldCount |-> 1, newStart |-> oldStart,
             newCount |-> 1, header |-> header]]

\* diffFile{} and diffHunk{}
ZeroDiffFile == [oldFile |-> "", newFile |-> "", hunks |-> <<>>]
ZeroDiffHunk ==
  [oldStart |-> 0, oldCount |-> 0, newStart |-> 0, newCount |-> 0, header |-> "",
   lines |-> <<>>]

\* func splitDiffFiles(fileLine string) (oldFile, newFile string, err error):
\* a file header line has two fields, the other lines of the model have not
splitDiffFiles(fileLine) ==
  IF fileLine.kind = "f"
  THEN [oldFile |-> fileLine.text[1], newFile |-> fileLine.text[2], err |-> "nil"]
  ELSE [oldFile |-> "", newFile |-> "", err |-> "invalid diff format"]

\* func parseHunkHeader(headerLine string)
parseHunkHeader(headerLine) ==
  IF headerLine.kind = "@"
  THEN [oldStart |-> headerLine.text.oldStart, oldCount |-> headerLine.text.oldCount,
        newStart |-> headerLine.text.newStart, newCount |-> headerLine.text.newCount,
        header |-> headerLine.text.header, err |-> "nil"]
  ELSE [oldStart |-> 0, oldCount |-> 0, newStart |-> 0, newCount |-> 0, header |-> "",
        err |-> "invalid diff format"]

\* currentDiff.oldFile, currentDiff.newFile, err = splitDiffFiles(line)
WithFiles(d, split) == [d EXCEPT !.oldFile = split.oldFile, !.newFile = split.newFile]

\* currentHunk.oldStart, ..., currentHunk.header, err = parseHunkHeader(line)
WithHeader(h, parsed) ==
  [h EXCEPT !.oldStart = parsed.oldStart, !.oldCount = parsed.oldCount,
            !.newStart = parsed.newStart, !.newCount = parsed.newCount,
            !.header = parsed.header]

\* the switch of parseDiffString on a line that is not empty
parseDiffString_switch(line) ==
  LET same == [state |-> dstate, currentDiff |-> currentDiff,
               currentHunk |-> currentHunk, res |-> dres, err |-> "nil"]
  IN  IF dstate = "INIT"
      THEN LET split == splitDiffFiles(line)
           IN  [same EXCEPT !.currentDiff = WithFiles(currentDiff, split),
                            !.state = "IN_DIFF", !.err = split.err]
      ELSE IF dstate = "IN_DIFF"
      THEN LET parsed == parseHunkHeader(line)
           IN  [same EXCEPT !.currentHunk = WithHeader(currentHunk, parsed),
                            !.state = "IN_HUNK", !.err = parsed.err]
      ELSE IF line.kind \in {"-", "+", " "}
      THEN [same EXCEPT !.currentHunk.lines = Append(currentHunk.lines, line)]
      ELSE IF line.kind = "@"
      THEN LET parsed == parseHunkHeader(line)
           IN  [same EXCEPT !.currentDiff.hunks = Append(currentDiff.hunks, currentHunk),
                            !.currentHunk = WithHeader(ZeroDiffHunk, parsed),
                            !.state = "IN_HUNK", !.err = parsed.err]
      ELSE LET split == splitDiffFiles(line)
           IN  [same EXCEPT !.res = Append(dres, currentDiff),
                            !.currentDiff = WithFiles(currentDiff, split),
                            !.state = "IN_DIFF", !.err = split.err]

\* the file sections of the diffs given to parseDiffString
FileSections ==
  {<<FileLine("a.go", "a.go"), HunkHeaderLine(1, "func a"), Line("+", "+x")>>,
   <<FileLine("b.go", "b.go"), HunkHeaderLine(1, "func b"), Line("-", "-y"),
     HunkHeaderLine(5, "func c"), Line(" ", " z"), Line("+", "+w")>>,
   <<FileLine(DevNull, "n.go"), HunkHeaderLine(0, "func n"), Line("+", "+v")>>}

RECURSIVE JoinSections(_)
\* the sections one after the other
JoinSections(sections) ==
  IF sections = <<>> THEN <<>> ELSE Head(sections) \o JoinSections(Tail(sections))

\* strings.Split(diff, "\n") of the well-formed diffs of 0 .. MaxFiles files:
\* the text ends with a newline, so the last line is empty
WellFormedDiffs ==
  {JoinSections(sections) \o <<Line("", "")>> : sections \in SeqsUpTo(FileSections, MaxFiles)}

\* a diff that starts with a line that is no file header
MalformedDiffs == {<<Line("+", "+x"), Line("", "")>>}

\* parseDiffString(diff) is entered
InitParse ==
  /\ dinput \in WellFormedDiffs \cup MalformedDiffs
  /\ dnext = 1
  /\ dstate = "INIT"
  /\ currentDiff = ZeroDiffFile
  /\ currentHunk = ZeroDiffHunk
  /\ dres = <<>>
  /\ dret = [kind |-> "running"]
  /\ IdleMatch /\ IdleStream /\ IdleLimit /\ IdleCompile /\ IdleRules /\ IdleParallel
  /\ IdleTimeout /\ IdleCompute /\ IdleStore

\* one iteration of `for _, line := range strings.Split(diff, "\n")`
ParseLine ==
  /\ dret.kind = "running"
  /\ dnext <= Len(dinput)
  /\ LET line == dinput[dnext]
         r == parseDiffString_switch(line)
     IN  IF line.kind = ""
         THEN /\ dnext' = dnext + 1
              /\ UNCHANGED <<dstate, currentDiff, currentHunk, dres, dret>>
         ELSE /\ dstate' = r.state
              /\ currentDiff' = r.currentDiff
              /\ currentHunk' = r.currentHunk
              /\ dres' = r.res
              /\ IF r.err # "nil"
                 THEN dret' = [kind |-> "returned", res |-> <<>>, err |-> r.err] /\ dnext' = dnext
                 ELSE dret' = dret /\ dnext' = dnext + 1
  /\ UNCHANGED dinput
  /\ UNCHANGED exceptParse

\* return res, nil
ParseReturns ==
  /\ dret.kind = "running"
  /\ dnext > Len(dinput)
  /\ dret' = [kind |-> "returned", res |-> dres, err |-> "nil"]
  /\ UNCHANGED <<dinput, dnext, dstate, currentDiff, currentHunk, dres>>
  /\ UNCHANGED exceptParse

NextParse ==
  \/ ParseLine
  \/ ParseReturns

-----------------------------------------------------------------------------
(* Specifications: each runs one part and leaves the others idle *)

\* the match model
Spec == InitMatch /\ [][NextMatch]_vars

\* toCommitDiffResults
SpecStream == InitStream /\ [][NextStream]_vars

\* the LIMIT job
SpecLimit == InitLimit /\ [][NextLimit]_vars

\* the LIMIT job with its scheduling: a batch handed to LIMIT is handled,
\* and a branch that has nothing more to send returns
SpecLimitFair ==
  /\ InitLimit /\ [][NextLimit]_vars
  /\ \A b \in Branches : WF_vars(LimitSend(b)) /\ WF_vars(BranchDone(b))

\* NewOpportunisticJob
SpecCompile == InitCompile /\ [][NextCompile]_vars

\* the mutation rules called on one clause
SpecRules == InitRules /\ [][NextRules]_vars

\* the PARALLEL fan-out
SpecParallel == InitParallel /\ [][NextParallel]_vars

\* the lockfile results of the dependencies store
SpecLockfiles == InitLockfiles /\ [][NextLockfiles]_vars

\* the lockfile results upserted with their dependency graph
SpecLockfileGraph == InitLockfiles /\ [][NextLockfileGraph]_vars

\* SelectRepoRevisionsToResolve as time passes
SpecResolve == InitResolve /\ [][NextResolve]_vars

\* parseDiffString over one diff
SpecParse == InitParse /\ [][NextParse]_vars

\* the dependency repos of the dependencies store
SpecDependencyRepos == InitDependencyRepos /\ [][NextDependencyRepos]_vars

\* NewComputeStream with its goroutine, its consumer and its caller
SpecCompute == InitCompute /\ [][NextCompute]_vars

\* the TIMEOUT job with its scheduling: the child goes on with its work,
\* every backend call returns, and TIMEOUT returns once its child has
\* (time need not pass)
SpecTimeout ==
  /\ InitTimeout /\ [][NextTimeout]_vars
  /\ WF_vars(ChildStartsCall) /\ WF_vars(ChildCallReturns)
  /\ WF_vars(ChildObservesCancellation) /\ WF_vars(ChildCompletes)
  /\ WF_vars(TimeoutReturns)

-----------------------------------------------------------------------------
(* Properties of the match model (specification Spec) *)

\* the preview ResultCount and Limit work on
PreviewInUse(c) == IF ~c.DiffPreview.nil THEN c.DiffPreview ELSE c.MessagePreview
HasPreview(c) == ~c.DiffPreview.nil \/ ~c.MessagePreview.nil
Limited == op.name = "Limit" /\ op.n >= 0 /\ HasPreview(prev)

\* C2 as stated: for every CommitMatch with a preview set and every n >= 0,
\* after Limit(n) the match's ResultCount() is at most n.
C2_LimitBoundsResultCount ==
  Limited => ret.kind = "int" /\ ResultCount(cm) <= op.n

\* C2 as amended: for every CommitMatch with a preview set, after Limit(n)
\* with n >= 1 the match's ResultCount() is at most n; after Limit(0) the
\* match has no highlighted range left and its ResultCount() is 1.
C2_LimitBoundsResultCountFrom1 ==
  Limited =>
    /\ ret.kind = "int"
    /\ Len(PreviewInUse(cm).MatchedRanges) <= op.n
    /\ op.n >= 1 => ResultCount(cm) <= op.n
    /\ op.n = 0 => ResultCount(cm) = 1

\* C2 witness: Limit(2) has cut a match of more than two highlights to two hits
C2_Witness ==
  /\ Limited /\ op.n = 2
  /\ Len(PreviewInUse(prev).MatchedRanges) > 2
  /\ ResultCount(cm) = 2

\* C3: Limit(n), n >= 0, on a commit match with a diff preview of k highlighted
\* ranges keeps exactly the first n ranges and returns 0 when k > n, and keeps
\* all k ranges and returns n - k when 1 <= k <= n.
C3_LimitDiffRanges ==
  (op.name = "Limit" /\ op.n >= 0 /\ ~prev.DiffPreview.nil) =>
    LET before == prev.DiffPreview.MatchedRanges
        after == cm.DiffPreview.MatchedRanges
        k == Len(before)
    IN  /\ k > op.n =>
             ret.kind = "int" /\ ret.int = 0 /\ after = SubSeq(before, 1, op.n)
        /\ (1 <= k /\ k <= op.n) =>
             ret.kind = "int" /\ ret.int = op.n - k /\ after = before

\* C3 witness: ten highlighted ranges through Limit(4) leave four, budget 0
C3_Witness ==
  /\ op.name = "Limit" /\ op.n = 4
  /\ ~prev.DiffPreview.nil /\ Len(prev.DiffPreview.MatchedRanges) = 10
  /\ Len(cm.DiffPreview.MatchedRanges) = 4
  /\ ret.kind = "int" /\ ret.int = 0

\* C5: Select is idempotent: selecting by path p on what cm.Select(p) returned
\* returns that same result again (the same match with the same highlighted
\* ranges, or nil again).
C5_SelectIdempotent ==
  (op.name = "Select" /\ ret.kind = "match") =>
    Match_Select(ret.match, op.path) = ret.match

\* C5 witness: commit.diff.added has removed some but not all highlights
C5_Witness ==
  /\ op.name = "Select" /\ op.path = <<"commit", "diff", "added">>
  /\ ret.kind = "match" /\ ret.match.type = "CommitMatch"
  /\ Len(ret.match.DiffPreview.MatchedRanges) > 0
  /\ Len(ret.match.DiffPreview.MatchedRanges) < Len(prev.DiffPreview.MatchedRanges)

\* C6: Select by a path rooted at repo returns a RepoMatch with the commit's
\* repository name and ID; by commit.diff (with or without a further field)
\* on a match without DiffPreview it returns nil; by a path rooted at neither
\* repo nor commit it returns nil; by the plain commit path it returns the
\* match itself.
C6_SelectProjectsOrRejects ==
  op.name = "Select" =>
    /\ Root(op.path) = "repo" =>
         ret.kind = "match" /\ ret.match = RepoMatch(prev.Repo.Name, prev.Repo.ID)
    /\ (Root(op.path) = "commit" /\ Len(op.path) >= 2 /\ op.path[2] = "diff"
        /\ prev.DiffPreview.nil) =>
         ret.kind = "match" /\ ret.match = NilMatch
    /\ Root(op.path) \notin {"repo", "commit"} =>
         ret.kind = "match" /\ ret.match = NilMatch
    /\ op.path = <<"commit">> =>
         ret.kind = "match" /\ ret.match = prev /\ cm = prev

\* C6 witness: commit.diff.added on a commit-message match has returned nil
C6_Witness ==
  /\ op.name = "Select" /\ op.path = <<"commit", "diff", "added">>
  /\ prev.DiffPreview.nil /\ ~prev.MessagePreview.nil
  /\ Len(prev.MessagePreview.MatchedRanges) > 0
  /\ ret.kind = "match" /\ ret.match = NilMatch

\* C7: ResultCount() is the number of matched ranges of the preview in use
\* (DiffPreview if set, otherwise MessagePreview) when that number is
\* greater than 0, and 1 otherwise.
C7_ResultCount ==
  op.name = "ResultCount" =>
    LET n == Cardinality(DOMAIN PreviewInUse(prev).MatchedRanges)
    IN  ret.kind = "int" /\ ret.int = (IF n > 0 THEN n ELSE 1)

\* C7 witness: a diff match without highlights has been counted as 1
C7_Witness ==
  /\ op.name = "ResultCount"
  /\ ~prev.DiffPreview.nil /\ prev.DiffPreview.MatchedRanges = <<>>
  /\ ret.int = 1

\* C8: Limit on a CommitMatch with neither DiffPreview nor MessagePreview set
\* panics for every n and returns no budget.
C8_LimitWithoutPreviewPanics ==
  (op.name = "Limit" /\ ~HasPreview(prev)) => ret.kind = "panic" /\ cm = prev

\* C8 witness: Limit(3) on a match without previews has panicked
C8_Witness ==
  /\ op.name = "Limit" /\ op.n = 3
  /\ prev.DiffPreview.nil /\ prev.MessagePreview.nil
  /\ ret.kind = "panic"

-----------------------------------------------------------------------------
(* Properties of toCommitDiffResults (specification SpecStream) *)

\* C4: two CommitDiffMatch values of the same repository and commit whose
\* Path() differ (added, deleted or modified files), as toCommitDiffResults
\* produces them for one search, have different Key() values.
C4_DistinctMatchesDistinctKeys ==
  \A i, j \in 1..Len(newMatches) :
    LET a == newMatches[i]
        b == newMatches[j]
    IN  (/\ a.type = "CommitDiffMatch" /\ b.type = "CommitDiffMatch"
         /\ a.Repo = b.Repo /\ a.Commit = b.Commit
         /\ CommitDiffMatch_Path(a) # CommitDiffMatch_Path(b))
        => CommitDiffMatch_Key(a) # CommitDiffMatch_Key(b)

-----------------------------------------------------------------------------
(* Properties of the LIMIT job (specification SpecLimit) *)

\* C1: for any n >= 0 and any interleaving of the concurrently producing
\* branches under LIMIT(n), the sum of ResultCount() over all matches
\* delivered to the sink never exceeds n.
C1_LimitNeverExceeded == Sink_ResultCount(sink) <= limit0

\* C1 witness: under LIMIT(3) both branches have delivered; the first batch
\* took two hits and the second batch was cut from two highlights to one
C1_Witness ==
  /\ limit0 = 3 /\ limitHit
  /\ Len(sink) = 2
  /\ sink[1] = <<BackendMatch(2)>>
  /\ Len(sink[2]) = 1
  /\ sink[2][1].MessagePreview.MatchedRanges = <<Range(21)>>
  /\ Sink_ResultCount(sink) = 3

-----------------------------------------------------------------------------
(* Properties of NewOpportunisticJob (specification SpecCompile) *)

\* the parameter values of a clause with the given field
ValuesOf(b, field) ==
  {b.Parameters[i].Value : i \in {j \in DOMAIN b.Parameters : b.Parameters[j].Field = field}}

\* C9: every clause compiled by NewOpportunisticJob becomes TIMEOUT(d)
\* wrapping LIMIT(n) wrapping the clause's backend job, with a SELECT(path)
\* node directly inside LIMIT exactly when the clause has a non-empty select
\* parameter; n and d are the clause's count and timeout parameters, the
\* service defaults when the clause has none.
C9_CompiledShape ==
  \A k \in 1..Len(children) :
    LET b == Generated(version, plan)[k]
        c == children[k]
        sel == ValuesOf(b, "select") \ {""}
        n == IF ValuesOf(b, "count") = {"10"} THEN 10 ELSE 500
        d == IF ValuesOf(b, "timeout") = {"5s"} THEN 5 ELSE 20
        backend == BackendJob(b)
    IN  /\ c.node = "TIMEOUT" /\ c.value = d
        /\ c.child.node = "LIMIT" /\ c.child.value = n
        /\ sel # {} =>
             /\ c.child.child.node = "SELECT"
             /\ \E v \in sel : c.child.child.value = <<v>>
             /\ c.child.child.child = backend
        /\ sel = {} => c.child.child = backend

\* C9 witness: a clause with select:file, count:10 and timeout:5s and a
\* clause without any of them have both been compiled
C9_Witness ==
  /\ version = "UnorderedPatterns" /\ cpc = "done" /\ Len(children) = 4
  /\ children[1].value = 5 /\ children[1].child.value = 10
  /\ children[1].child.child.node = "SELECT"
  /\ children[3].value = 20 /\ children[3].child.value = 500
  /\ children[3].child.child.node = "BACKEND"

\* the clauses a mutation rule of the compiled-in BuildBasic produces for b
MutationsOf(v, b) ==
  IF v = "OnlySelect" THEN <<OnlySelect(b)>> ELSE <<UnorderedPatterns(b)>>

RECURSIVE OriginalsAndMutations(_, _)
\* per clause of the plan, in plan order: the clause, then its mutations
OriginalsAndMutations(v, p) ==
  IF p = <<>> THEN <<>>
  ELSE <<Head(p)>> \o MutationsOf(v, Head(p)) \o OriginalsAndMutations(v, Tail(p))

\* C10: for every plan NewOpportunisticJob compiles, for each clause, the
\* original clause and every clause produced by the mutation rules, and
\* returns one top-level OR whose children are exactly those compiled jobs,
\* in plan order, the original before its mutations.
C10_OrOfOriginalsAndMutations ==
  cpc = "done" =>
    LET expected == OriginalsAndMutations(version, plan)
    IN  /\ job.node = "OR"
        /\ Len(job.children) = Len(expected)
        /\ \A k \in 1..Len(expected) :
             job.children[k] = CompileChild(expected[k])

\* the jobs compiled for the clauses: the children of the returned OR, or the
\* returned job itself when it is the only child
CompiledJobs(j) == IF j.node = "OR" THEN j.children ELSE <<j>>

\* the backend job inside TIMEOUT(LIMIT(..)), below the SELECT if there is one
Inner(c) == IF c.child.child.node = "SELECT" THEN c.child.child.child ELSE c.child.child

\* the clause `repo:sourcegraph func parse` without count: and timeout:
IsFuncParse(b) ==
  /\ RepoFilters(b) = <<"sourcegraph">>
  /\ ValuesOf(b, "count") = {} /\ ValuesOf(b, "timeout") = {}
  /\ b.Pattern.kind = "Pattern"
  /\ b.Pattern.Value = <<"func", "parse">> /\ ~b.Pattern.Negated

\* C11: compiling a plan with the clause `repo:sourcegraph func parse` (no
\* count, no timeout) yields a job for it that has an indexed
\* (ZoektRepoSubset) branch, an unindexed (Searcher) branch and a repo-name
\* (RepoSearch) branch, each scoped to the repository filter sourcegraph and
\* searching the pattern `func parse`, inside LIMIT(500) inside TIMEOUT(20s).
C11_FuncParseFanOut ==
  cpc = "done" =>
    \A k \in 1..Len(plan) :
      IsFuncParse(plan[k]) =>
        \E i \in 1..Len(CompiledJobs(job)) :
          LET c == CompiledJobs(job)[i]
          IN  /\ c.node = "TIMEOUT" /\ c.value = 20
              /\ c.child.node = "LIMIT" /\ c.child.value = 500
              /\ Inner(c).node = "BACKEND"
              /\ \A name \in {"ZoektRepoSubset", "Searcher", "RepoSearch"} :
                   \E l \in 1..Len(Inner(c).children) :
                     LET leaf == Inner(c).children[l]
                     IN  /\ leaf.job = name
                         /\ leaf.RepoFilters = <<"sourcegraph">>
                         /\ leaf.Pattern.kind = "Pattern"
                         /\ leaf.Pattern.Value = <<"func", "parse">>
                         /\ ~leaf.Pattern.Negated

\* C11 witness: the plan of the single clause `repo:sourcegraph func parse`
\* has been compiled by the BuildBasic of opportunistic.go into one job
C11_Witness ==
  /\ cpc = "done" /\ version = "OnlySelect"
  /\ Len(plan) = 1 /\ IsFuncParse(plan[1])
  /\ job.node = "TIMEOUT" /\ job.child.child.node = "BACKEND"
  /\ job.child.child.children[1].job = "ZoektRepoSubset"

\* whether the pattern of a clause contains an `only repo|file|path|content|symbol` phrase
HasOnlyPhrase(b) ==
  LET s == StringHuman(b.Pattern) IN \E i \in 1..Len(s) : OnlyAt(s, i)

\* C12: OnlySelect returns nil for every clause whose pattern contains no
\* `only repo|file|path|content|symbol` phrase, so that BuildBasic emits no
\* clause and NewOpportunisticJob compiles no job for it: the jobs compiled
\* are those of the clauses that have the phrase.
C12_NoPhraseNoClause ==
  (version = "OnlySelect" /\ cpc = "done") =>
    /\ \A k \in 1..Len(plan) :
         ~HasOnlyPhrase(plan[k]) =>
           OnlySelect(plan[k]) = NilBasic /\ BuildBasic(version, plan[k]) = <<>>
    /\ Len(children) = Cardinality({k \in 1..Len(plan) : HasOnlyPhrase(plan[k])})

\* the number of operands a term contributes: one when negated, one per word otherwise
TermSize(l) == IF l.Negated THEN 1 ELSE Len(l.Value)

RECURSIVE Offset(_, _)
\* the number of operands contributed by the terms before term j
Offset(leaves, j) ==
  IF j <= 1 THEN 0 ELSE Offset(leaves, j - 1) + TermSize(leaves[j - 1])

\* C13: UnorderedPatterns returns a clause with the input's parameters
\* unchanged and a pattern that is an AND whose operands are, in original
\* order, every negated term of the input verbatim (same value, negation and
\* annotation) and, for every non-negated term, one literal term per
\* space-separated word of its value.
C13_UnorderedPatterns ==
  version = "UnorderedPatterns" =>
    \A k \in 1..Len(plan) :
      2 * k <= Len(children) =>
        LET b == plan[k]
            g == Inner(children[2 * k]).basic
            leaves == VisitPattern(<<b.Pattern>>)
        IN  /\ g.Parameters = b.Parameters
            /\ g.Pattern.kind = "Operator" /\ g.Pattern.Kind = "And"
            /\ Len(g.Pattern.Operands) = Offset(leaves, Len(leaves) + 1)
            /\ \A j \in 1..Len(leaves) :
                 IF leaves[j].Negated
                 THEN g.Pattern.Operands[Offset(leaves, j) + 1] = leaves[j]
                 ELSE \A i \in 1..Len(leaves[j].Value) :
                        g.Pattern.Operands[Offset(leaves, j) + i] =
                          Pattern(<<leaves[j].Value[i]>>, FALSE, "Literal")

\* C13 witness: the clause `a b AND NOT /x y/ AND c` has been compiled as
\* the AND of a, b, NOT /x y/ and c
C13_Witness ==
  /\ version = "UnorderedPatterns" /\ Len(children) >= 2
  /\ plan[1].Pattern.kind = "Operator"
  /\ Inner(children[2]).basic.Pattern.Operands =
       <<Pattern(<<"a">>, FALSE, "Literal"), Pattern(<<"b">>, FALSE, "Literal"),
         Pattern(<<"x", "y">>, TRUE, "Regexp"), Pattern(<<"c">>, FALSE, "Literal")>>

-----------------------------------------------------------------------------
(* Properties of the mutation rules (specification SpecRules) *)

UrlResults ==
  {rcalls[i].result : i \in {j \in 1..Len(rcalls) :
     rcalls[j].rule = "PatternsAsRepoPaths" /\ rcalls[j].arg = UrlClause}}

\* C20 as stated: the URL-as-repository-filter rule applied to
\* `https://github.com/yes/repo not/repo github.com/also/repo file:foo pattern`
\* yields a clause with repository filters yes/repo, also/repo and not/repo,
\* file filter foo, and residual pattern `pattern`.
C20_UrlAsRepoFilter ==
  \A g \in UrlResults :
    /\ g # NilBasic
    /\ ValuesOf(g, "repo") = {"yes/repo", "also/repo", "not/repo"}
    /\ ValuesOf(g, "file") = {"foo"}
    /\ g.Pattern.Value = <<"pattern">>

\* C20 as amended: the rule yields a clause with repository filters yes/repo
\* and also/repo (in this order, after the file filter foo) and the residual
\* pattern `not/repo pattern`: not/repo is no URL or host-qualified path and
\* stays in the pattern.
C20_UrlAsRepoFilterHostQualified ==
  \A g \in UrlResults :
    /\ g # NilBasic
    /\ g.Parameters = <<Parameter("file", "foo"), Parameter("repo", "yes/repo"),
                        Parameter("repo", "also/repo")>>
    /\ g.Pattern.Value = <<"not/repo", "pattern">>
    /\ ~g.Pattern.Negated

\* C20 witness: the rule has been called on that clause and has returned a clause
C20_Witness ==
  \E i \in 1..Len(rcalls) :
    /\ rcalls[i].rule = "PatternsAsRepoPaths" /\ rcalls[i].arg = UrlClause
    /\ rcalls[i].result # NilBasic
    /\ ValuesOf(rcalls[i].result, "repo") = {"yes/repo", "also/repo"}

-----------------------------------------------------------------------------
(* Properties of the PARALLEL fan-out (specification SpecParallel) *)

\* the batches of branch b in the sink, in order of arrival
SinkOf(b) ==
  LET from == SelectSeq(psink, LAMBDA e : e.branch = b)
  IN  [i \in 1..Len(from) |-> from[i].batch]

\* C15: in a parallel fan-out where one branch returns an error and another
\* succeeds, every match of the successful branch is delivered to the sink,
\* the sibling is run to completion rather than cancelled (the fan-out never
\* cancels its branches because of an error), and the outcome is an alert,
\* not a hard error; when all branches fail the contribution is an empty
\* result set plus an alert.
C15_FanOutToleratesBranchError ==
  /\ pcancelled # "error"
  /\ pout.state = "returned" =>
       /\ pout.err = "none"
       /\ (\E b \in Branches : ppc[b] = "err") => pout.alert # "none"
       /\ \A b \in Branches : ppc[b] = "ok" => SinkOf(b) = pwork[b]
       /\ pcancelled = "no" => \A b \in Branches : ~pfails[b] => ppc[b] = "ok"
       /\ (\A b \in Branches : ppc[b] = "err") => psink = <<>> /\ pout.alert # "none"

\* C15 witness: Zoekt has failed, Searcher has delivered its two batches,
\* and the fan-out has returned an alert and no error
C15_Witness ==
  /\ pout.state = "returned" /\ pout.err = "none" /\ pout.alert = "partial results"
  /\ ppc["Zoekt"] = "err" /\ ppc["Searcher"] = "ok"
  /\ Len(pwork["Searcher"]) = 2 /\ SinkOf("Searcher") = pwork["Searcher"]

-----------------------------------------------------------------------------
(* Properties of the LIMIT job under its scheduling (specification SpecLimitFair) *)

\* C16: once the remaining budget of LIMIT(n) reaches zero the job cancels
\* its child's context and sets the "result limit hit" indicator; a batch
\* that is in flight then is still handed on to the sink (trimmed to the
\* remaining budget) and what was delivered stays delivered; the job then
\* completes (all branches return) with the indicator set; and the child's
\* context is never cancelled while the budget is still positive.
C16_LimitCancelsAtZero ==
  /\ [](cancelled => (remaining <= 0 /\ limitHit))
  /\ [][(remaining > 0 /\ remaining' <= 0) => (cancelled' /\ limitHit')]_vars
  /\ [][/\ Len(sink') >= Len(sink) /\ SubSeq(sink', 1, Len(sink)) = sink
        /\ \A b \in Branches :
             (bpc[b] = "send" /\ bpc'[b] # "send") => Len(sink') = Len(sink) + 1]_vars
  /\ \A b \in Branches : (cancelled /\ bpc[b] = "send") ~> (bpc[b] # "send")
  /\ cancelled ~> (limitHit /\ \A b \in Branches : bpc[b] = "done")

\* C16 witness: the budget of LIMIT(2) is used up and the child cancelled
\* while the other branch has a batch in flight
C16_Witness ==
  /\ limit0 = 2 /\ remaining = 0 /\ cancelled /\ limitHit
  /\ Len(sink) = 1
  /\ bpc["Searcher"] = "send" /\ bbatch["Searcher"] # <<>>

-----------------------------------------------------------------------------
(* Properties of the TIMEOUT job (specification SpecTimeout) *)

\* C17: TIMEOUT(d) always returns control after its deadline has expired,
\* also when its child never looks at its context; a child that completes
\* is unaffected: all its results are delivered and TIMEOUT returns without
\* a "timed out" alert.
C17_TimeoutReturns ==
  /\ (tctx = "expired") ~> (tpc = "returned")
  /\ [](tchild = "done" => tdelivered = ttotal)
  /\ []((tpc = "returned" /\ tchild = "done") => talert = "none")

\* C17 witness: the deadline has expired during the first of two backend
\* calls of a child that never looks at its context, and TIMEOUT has returned
C17_Witness ==
  /\ ~tobserves /\ ttotal = 2 /\ tdeadline = 1
  /\ tctx = "expired" /\ tpc = "returned" /\ tchild = "done"

-----------------------------------------------------------------------------
(* Properties of NewComputeStream (specification SpecCompute) *)

\* C18: a send blocked on the events channel observes the cancellation of
\* ctx: when ctx is cancelled and the consumer has stopped receiving, the
\* goroutine blocked in the send can take a step (abandon the send), so that
\* it finishes and the wait function returns.
C18_BlockedSendObservesCancellation ==
  (kpc = "sending" /\ kctx = "cancelled" /\ kconsumer = "stopped")
     => ENABLED (CallbackSends \/ ExecuteReturns)

-----------------------------------------------------------------------------
(* Compilation failures (specification SpecCompile) *)

\* C19: a compilation failure is never swallowed: when ToEvaluateJob or the
\* optimization pass fails for a generated clause, NewOpportunisticJob panics
\* and returns no job; a job that is returned holds one compiled job for
\* every generated clause, none dropped.
C19_CompileFailureAborts ==
  /\ cpc \notin {"loop", "done"} => job = NoJob
  /\ job # NoJob =>
       /\ cpc = "done"
       /\ Len(children) = Len(Generated(version, plan))
       /\ \A i \in 1..Len(children) :
            children[i] = CompileChild(Generated(version, plan)[i])
       /\ job = NewOrJob(children)

\* C19 witness: the optimization pass failed for the second generated clause,
\* after the first had been compiled; no job is returned
C19_Witness ==
  /\ cpc = "panic: optimization pass on generated query failed"
  /\ gi = 2 /\ Len(children) = 1
  /\ job = NoJob

-----------------------------------------------------------------------------
(* The unquote rule (specification SpecRules) *)

\* the calls of the unquote rule that returned a clause
UnquotedCalls ==
  {i \in 1..Len(rcalls) :
     rcalls[i].rule = "UnquotedPatterns" /\ rcalls[i].result # NilBasic}

RECURSIVE WordsBefore(_, _)
\* the number of words of the terms before term j
WordsBefore(leaves, j) ==
  IF j <= 1 THEN 0 ELSE WordsBefore(leaves, j - 1) + Len(leaves[j - 1].Value)

\* C21: the unquote rule merges all pattern terms of a clause, the quoted
\* ones without their quotes, joined by single spaces in their original
\* order, into one pattern; for `"result please" unless? "maybe" ok` the
\* mutated clause prints as ` "result please unless? maybe ok"`.
C21_UnquotedPatterns ==
  \A i \in UnquotedCalls :
    LET b == rcalls[i].arg
        g == rcalls[i].result
        leaves == VisitPattern(<<b.Pattern>>)
    IN  /\ g.Parameters = b.Parameters
        /\ g.Pattern.kind = "Pattern" /\ ~g.Pattern.Negated
        /\ Len(g.Pattern.Value) = WordsBefore(leaves, Len(leaves) + 1)
        /\ \A j \in 1..Len(leaves) : \A k \in 1..Len(leaves[j].Value) :
             g.Pattern.Value[WordsBefore(leaves, j) + k] = leaves[j].Value[k]
        /\ b = QuotedClause =>
             Basic_StringHuman(g) =
               <<" ", "\"", "result", " ", "please", " ", "unless?", " ", "maybe",
                 " ", "ok", "\"">>

\* C21 witness: the rule has been called on `"result please" unless? "maybe" ok`
\* and has returned the clause with the one pattern of five words
C21_Witness ==
  \E i \in UnquotedCalls :
    /\ rcalls[i].arg = QuotedClause
    /\ rcalls[i].result.Pattern.Value = <<"result", "please", "unless?", "maybe", "ok">>

-----------------------------------------------------------------------------
(* selectCommitDiffKind (specification Spec) *)

\* whether highlight h starts on a line of the content that has the prefix
OnPrefixedLine(content, h, prefix) ==
  /\ h.Start.Line >= 0 /\ h.Start.Line < Len(content)
  /\ HasPrefix(content[h.Start.Line + 1], prefix)

\* C22: selectCommitDiffKind(c, field) for field added (resp. removed)
\* returns c only if c has a diff preview and either some highlight lies on a
\* line of the diff starting with '+' (resp. '-') or, when c has no
\* highlights, some line of the diff starts with that prefix; otherwise it
\* returns nil; in a returned match every remaining highlight starts on a
\* line with that prefix.
C22_SelectCommitDiffKind ==
  (/\ op.name = "Select" /\ Len(op.path) = 3
   /\ op.path[1] = "commit" /\ op.path[2] = "diff"
   /\ op.path[3] \in {"added", "removed"}) =>
    LET diff == prev.DiffPreview
        prefix == IF op.path[3] = "added" THEN "+" ELSE "-"
        keeps ==
          /\ ~diff.nil
          /\ IF Len(diff.MatchedRanges) = 0
             THEN \E i \in 1..Len(diff.Content) : diff.Content[i].kind = prefix
             ELSE \E i \in 1..Len(diff.MatchedRanges) :
                    OnPrefixedLine(diff.Content, diff.MatchedRanges[i], prefix)
    IN  /\ ret.kind = "match"
        /\ keeps => /\ ret.match = cm
                    /\ cm.Repo = prev.Repo /\ cm.Commit = prev.Commit
                    /\ cm.DiffPreview.Content = diff.Content
                    /\ \A i \in 1..Len(cm.DiffPreview.MatchedRanges) :
                         OnPrefixedLine(diff.Content, cm.DiffPreview.MatchedRanges[i], prefix)
        /\ ~keeps => ret.match = NilMatch

\* C22 witness: commit.diff.removed on a diff match with one highlight on the
\* added line and one on the removed line has returned the match with the
\* highlight on the removed line only
C22_Witness ==
  /\ op.name = "Select" /\ op.path = <<"commit", "diff", "removed">>
  /\ prev.DiffPreview.Content = DiffContentAR
  /\ prev.DiffPreview.MatchedRanges = <<Range(2), Range(3)>>
  /\ ret.kind = "match" /\ ret.match # NilMatch
  /\ ret.match.DiffPreview.MatchedRanges = <<Range(3)>>

-----------------------------------------------------------------------------
(* Lockfile results of the dependencies store (specification SpecLockfiles) *)

\* C23: after UpsertLockfileDependencies(repo, commit, deps) has succeeded for
\* an existing repository, LockfileDependencies(repo, commit) returns found =
\* true and exactly the given deps, also when deps is empty; for a (repo,
\* commit) that was never upserted it returns found = false; a later upsert
\* for the same (repo, commit) replaces the earlier result.
C23_LockfileDependencies ==
  sop.name = "LockfileDependencies" =>
    LET last == upserted[<<sop.repoName, sop.commit>>]
    IN  /\ sret.err = "nil"
        /\ (last.by = "UpsertLockfileDependencies" /\ sop.repoName \in RepoTable) =>
             /\ sret.found
             /\ Elements(sret.deps) = Elements(last.deps)
             /\ \A i, j \in 1..Len(sret.deps) : i # j => sret.deps[i] # sret.deps[j]
        /\ last.by = "none" => ~sret.found /\ sret.deps = <<>>

\* C23 witness: a was upserted for (repo, c1) earlier (its reference is
\* there), b alone was upserted last; the lookup returns b alone
C23_Witness ==
  /\ sop.name = "LockfileDependencies" /\ sop.repoName \in RepoTable
  /\ upserted[<<sop.repoName, sop.commit>>] =
       [by |-> "UpsertLockfileDependencies", deps |-> <<PkgB>>]
  /\ \E i \in 1..Len(references) :
       /\ references[i].package_name = "a"
       /\ references[i].resolution_id = ResolutionID(sop.repoName, sop.commit)
  /\ sret.found /\ sret.deps = <<PkgB>>

-----------------------------------------------------------------------------
(* Dependency repos (specification SpecDependencyRepos) *)

\* the scheme, name and version of the rows of lsif_dependency_repos
StoredDependencyRepos(table) ==
  {DependencyRepo(table[i].scheme, table[i].name, table[i].version) : i \in 1..Len(table)}

\* C24: UpsertDependencyRepos returns exactly those of the given dependency
\* repos that did not exist before the call (by scheme, name, version), each
\* once, and creates them; calling it again with the same input returns none
\* and leaves the stored set unchanged.
C24_UpsertDependencyRepos ==
  sop.name = "UpsertDependencyRepos" =>
    LET before == StoredDependencyRepos(sprev.dependencyRepos)
        given == Elements(sop.deps)
        new == sret.newDeps
    IN  /\ sret.err = "nil"
        /\ {DependencyRepo(new[i].Scheme, new[i].Name, new[i].Version) : i \in 1..Len(new)}
             = given \ before
        /\ Len(new) = Cardinality(given \ before)
        /\ StoredDependencyRepos(dependencyRepos) = before \cup given
        /\ \A i \in 1..Len(sprev.dependencyRepos) :
             dependencyRepos[i] = sprev.dependencyRepos[i]
        /\ (sprev.sop.name = "UpsertDependencyRepos" /\ sprev.sop.deps = sop.deps) =>
             new = <<>> /\ dependencyRepos = sprev.dependencyRepos

\* C24 witness: the second of two calls with the same two repos, of which the
\* first call created one, has returned none
C24_Witness ==
  /\ sop.name = "UpsertDependencyRepos" /\ Len(sop.deps) = 2
  /\ sop.deps[1] # sop.deps[2]
  /\ sprev.sop.name = "UpsertDependencyRepos" /\ sprev.sop.deps = sop.deps
  /\ Len(sprev.sret.newDeps) = 1
  /\ sret.newDeps = <<>>

-----------------------------------------------------------------------------
(* The receiver of CommitMatch.Select (specification Spec) *)

\* C25: CommitMatch.Select never modifies its receiver: for every select
\* path, the highlighted ranges of the match's DiffPreview and MessagePreview
\* after Select equal those before the call, whether Select returns the
\* match, another match or nil.
C25_SelectLeavesReceiver ==
  (op.name = "Select" /\ ret.kind = "match") =>
    /\ cm.DiffPreview.MatchedRanges = prev.DiffPreview.MatchedRanges
    /\ cm.MessagePreview.MatchedRanges = prev.MessagePreview.MatchedRanges

-----------------------------------------------------------------------------
(* The events channel of NewComputeStream (specification SpecCompute) *)

\* C26: on every return path of NewComputeStream (parse failure, conversion
\* failure, settings failure, plan failure, started search) the returned
\* events channel is not nil and is closed at most once, and once the search
\* goroutine is done or was never started it is closed, so that a consumer
\* ranging over it until closure terminates.
C26_EventsChannelClosedOnce ==
  kpath # "call" =>
    /\ keventsC # "nil"
    /\ kcloses <= 1
    /\ kpc \in {"none", "done"} => (keventsC = "closed" /\ kcloses = 1)

-----------------------------------------------------------------------------
(* The transaction of UpsertLockfileGraph (specification SpecLockfileGraph) *)

\* C27: if UpsertLockfileGraph returns an error (a graph edge or a graph root
\* names a package that is not among the upserted dependencies), the whole
\* call is rolled back: the package references, their depends_on edges and
\* the lockfile rows are the same as before the call.
C27_UpsertLockfileGraphRollsBack ==
  (sop.name = "UpsertLockfileGraph" /\ sret.err # "nil") =>
    /\ references = sprev.references
    /\ lockfiles = sprev.lockfiles

\* C27 witness: a and b were upserted with the graph a -> b whose root c is
\* not among them; the call had inserted references and written the edge when
\* it failed, and the tables are as before
C27_Witness ==
  /\ sop.name = "UpsertLockfileGraph" /\ sop.deps = <<PkgA, PkgB>>
  /\ sop.graph = DependencyGraph(<<<<PkgA, PkgB>>>>, <<PkgC>>)
  /\ sret.err = "id for root not found" /\ sret.wrote
  /\ references = sprev.references

-----------------------------------------------------------------------------
(* SelectRepoRevisionsToResolve (specification SpecResolve) *)

\* C28: a pair that a call of SelectRepoRevisionsToResolve returned at time t
\* is not returned again by a call with the same minimumCheckInterval > 0
\* made earlier than t + minimumCheckInterval, and a call returns at most
\* batchSize pairs
C28_NotReturnedWithinInterval ==
  (sop.name = "SelectRepoRevisionsToResolve" /\ sop.minimumCheckInterval > 0) =>
    /\ Cardinality(Pairs(sret.m)) <= sop.batchSize
    /\ \A p \in Pairs(sret.m) :
         (sprev[p].at # -1 /\ sprev[p].minimumCheckInterval = sop.minimumCheckInterval)
           => now >= sprev[p].at + sop.minimumCheckInterval

-----------------------------------------------------------------------------
(* The order of toCommitDiffResults (specification SpecStream) *)

\* a match that is not a CommitMatch with a diff preview
PassedThrough(m) == m.type # "CommitMatch" \/ m.DiffPreview.nil

\* C29: the output of toCommitDiffResults comes from its input in order: every
\* match that is not a CommitMatch with a diff preview is there unchanged,
\* a CommitMatch with a parseable diff preview has become one CommitDiffMatch
\* per file diff (its commit and repo, in diff order), and a CommitMatch whose
\* diff preview fails to parse has left nothing
C29_OrderPreserved ==
  \E from \in [1..Len(newMatches) -> 1..(mi - 1)] :
    /\ \A i, j \in 1..Len(newMatches) : i < j => from[i] <= from[j]
    /\ \A k \in 1..(mi - 1) :
         LET m == matches[k]
             outs == {i \in 1..Len(newMatches) : from[i] = k}
             parsed == ParseMultiFileDiff(m.DiffPreview.Content)
         IN  IF PassedThrough(m)
             THEN \E i \in outs : outs = {i} /\ newMatches[i] = m
             ELSE IF parsed.err THEN outs = {}
             ELSE /\ Cardinality(outs) = Len(parsed.fileDiffs)
                  /\ \A i \in outs :
                       LET n == Cardinality({j \in outs : j <= i})
                       IN  newMatches[i] =
                             CommitDiffMatch(m.Repo, m.Commit,
                                             parsed.fileDiffs[n].text[1],
                                             parsed.fileDiffs[n].text[2])

\* C29 witness: a commit match of two file diffs, then a commit match whose
\* diff preview fails to parse, have become the two diff matches alone
C29_Witness ==
  /\ mi = 3 /\ Len(matches) = 2
  /\ ~PassedThrough(matches[1]) /\ matches[1].DiffPreview.Content = DiffTwoFiles
  /\ ~PassedThrough(matches[2]) /\ matches[2].DiffPreview.Content = DiffMalformed
  /\ Len(newMatches) = 2
  /\ newMatches[2] = CommitDiffMatch(matches[1].Repo, matches[1].Commit, "b.go", "b.go")

-----------------------------------------------------------------------------
(* The result of parseDiffString (specification SpecParse) *)

\* the indices of the lines of a kind among lines from .. to of the input
LinesOfKind(kind, from, to) ==
  SelectSeq([i \in 1..to |-> i], LAMBDA i : i >= from /\ dinput[i].kind = kind)

\* the hunk whose header is line at, which ends before line to
HunkOfSection(at, to) ==
  [oldStart |-> dinput[at].text.oldStart, oldCount |-> dinput[at].text.oldCount,
   newStart |-> dinput[at].text.newStart, newCount |-> dinput[at].text.newCount,
   header |-> dinput[at].text.header,
   lines |-> SelectSeq(SubSeq(dinput, at + 1, to - 1),
                       LAMBDA l : l.kind \in {"-", "+", " "})]

\* the file whose header is line at, whose section ends before line to
FileOfSection(at, to) ==
  LET headers == LinesOfKind("@", at, to - 1)
  IN  [oldFile |-> dinput[at].text[1], newFile |-> dinput[at].text[2],
       hunks |-> [h \in 1..Len(headers) |->
                    HunkOfSection(headers[h], IF h < Len(headers) THEN headers[h + 1]
                                              ELSE to)]]

\* one file per file section of the input, in order, each with its hunks
FilesOfInput ==
  LET headers == LinesOfKind("f", 1, Len(dinput))
  IN  [f \in 1..Len(headers) |->
         FileOfSection(headers[f], IF f < Len(headers) THEN headers[f + 1]
                                   ELSE Len(dinput) + 1)]

\* C30: parseDiffString over a well-formed diff returns one diffFile per file
\* section in input order, each holding exactly the hunks of that section,
\* the last file of the input and the last hunk of every file included
C30_ParseDiffStringReturnsSections ==
  (dret.kind = "returned" /\ dinput \in WellFormedDiffs) =>
    dret.err = "nil" /\ dret.res = FilesOfInput

====
